---- MODULE Spec2Model ----
(***************************************************************************)
(* Verification model of starcoin-monitor.                                 *)
(*                                                                         *)
(*   - the index-lag watchdog: the pure decision logic of                  *)
(*     index_monitor_logic.rs and the poll loop StcScanMonitor::run of     *)
(*     stcscan_monitor.rs that drives it;                                  *)
(*   - the resilient dispatcher TelegramBot::send_message_to_chat of       *)
(*     telegram.rs (escape, formatted retries, plain-text fallback).       *)
(*                                                                         *)
(*   - the amount decoder parse_hex_amount of daily_notification.rs;       *)
(*   - the block pipeline: extract_full_txn_from_block_view and            *)
(*     parse_txn_p2p_amount of helper.rs, driven by                        *)
(*     DefaultMonitorHandler::dispatch_block;                              *)
(*   - the subscription loop blocking_display_notification of              *)
(*     pubsub_client.rs;                                                   *)
(*   - the daily digest of daily_notification.rs: process_transfers,       *)
(*     send_daily_summary and the loop of DailyNotificationService::run;   *)
(*   - the poll loop of the earlier watchdog of stc_scan_monitor.rs;       *)
(*   - the polling monitor Monitor::run / monitor_blocks of monitor.rs     *)
(*     with the alert table of database.rs.                                *)
(*                                                                         *)
(* The specifications share the variables:                                 *)
(*   Spec       the poll loop of StcScanMonitor::run (default config);     *)
(*   SpecLogic  a driver that calls check_index_monitor_state and          *)
(*              update_notification_state on arbitrary inputs, states and  *)
(*              configurations, as the unit tests do;                      *)
(*   SpecSend   one call of send_message_to_chat against a transport whose *)
(*              every attempt may succeed or fail;                         *)
(*   SpecHex    one call of parse_hex_amount on a string;                  *)
(*   SpecBlock  one call of dispatch_block on a block, or of               *)
(*              extract_full_txn_from_block_view on a list of blocks;      *)
(*   SpecSub    one call of subscribe_new_blocks or subscribe_new_events   *)
(*              (SpecSubLive: with the stream end and the return taken);   *)
(*   SpecTransfers  one call of process_transfers on a list of hits;       *)
(*   SpecDigest the loop of DailyNotificationService::run over some days   *)
(*              (SpecDigestLive: with the two sleeps of the loop ending);  *)
(*   SpecLegacy the poll loop of stc_scan_monitor.rs for some seconds;     *)
(*   SpecMonitor  some polls of Monitor::run over blocks of the node.      *)
(*                                                                         *)
(* Time is the wall clock in whole seconds since the epoch, as read by     *)
(* Utc::now().timestamp() as u64.  The clock is positive and it never      *)
(* steps backwards.                                                        *)
(***************************************************************************)
EXTENDS Integers, Sequences, FiniteSets, TLC

VARIABLES
    \* ---- index-lag watchdog -------------------------------------------
    now,                   \* Utc::now().timestamp() as u64
    pc,                    \* position of the running thread / driver
    notification_state,    \* NotificationState {latest_notify_time}
    monitor_config,        \* IndexMonitorConfig
    current_block_number,  \* last value read from chain_info()
    cached_index_number,   \* last value read from the index-cache lookup
    monitor_result,        \* last IndexMonitorResult
    dispatch_result,       \* Result of the last dispatch ("none" before any)
    notify_log,            \* history: the clock at every dispatch, in order
    state_before,          \* history: notification_state when the tick began
    lookup,                \* history: what the index cache answered in this tick
    \* ---- dispatcher ---------------------------------------------------
    message,               \* the text handed to send_message_to_chat
    retries,               \* local `retries`
    send_pc,               \* position inside send_message_to_chat
    send_result,           \* "none" while running, then "ok" or "err"
    calls,                 \* history: every transport call, in order
    backoff,               \* history: the delay slept before each retry
    \* ---- parse_hex_amount ---------------------------------------------
    hex_amount,            \* the argument, a string (sequence of characters)
    hx_pc,                 \* position inside parse_hex_amount
    bytes,                 \* local `bytes`
    padded_bytes,          \* local `padded_bytes`
    hx_i,                  \* index of the next iteration of the summing loop
    amount,                \* local `amount`: a u128 as its 16 bytes, low byte first
    hx_result,             \* "none" while running, then Ok(amount) or Err
    hx_src,                \* history: the bytes the argument encodes, if it was
                           \* made by encoding bytes
    \* ---- block pipeline -----------------------------------------------
    bk_caller,             \* the function that was called on block_views
    block_views,           \* the argument (dispatch_block: its one block)
    bk_pc,                 \* position inside the call
    txn_hashes_to_fetch,   \* local of extract_full_txn_from_block_view
    full_transactions,     \* local of extract_full_txn_from_block_view
    all_transactions,      \* local of extract_full_txn_from_block_view
    fetch_i,               \* number of hashes the fetch loop has gone through
    fetch_log,             \* history: every chain_get_transaction call, in order
    full_txns,             \* dispatch_block: the transactions it loops over
    txn_i,                 \* dispatch_block: number of transactions gone through
    sends,                 \* history: every tg_bot.send_message call, in order
    bk_result,             \* "none" while running, then the returned Result
    \* ---- subscription loop -------------------------------------------
    sb_caller,             \* subscribe_new_blocks or subscribe_new_events
    sb_pc,                 \* position inside the call
    stream,                \* what the subscription stream has yet to yield
    stream_ends,           \* whether the stream ends after that (or stays open)
    lines,                 \* the lines yet to be read from standard input
    pulled,                \* history: what try_next has yielded, in order
    handled,               \* history: the items the handler was called with
    returned,              \* history: the number of handler calls that returned
    subscribed,            \* history: the number of subscriptions made
    sb_input,              \* history: the stream and the lines at the start
    sb_result,             \* "none" while running, then the returned Result
    \* ---- daily digest -------------------------------------------------
    dg_caller,             \* DailyNotificationService::run or process_transfers
    dg_pc,                 \* position inside the call
    dg_now,                \* Utc::now(), in whole seconds
    hits,                  \* process_transfers: the argument
    hit_i,                 \* process_transfers: number of hits gone through
    large_transfers,       \* process_transfers: local, the value returned
    seen_hashes,           \* process_transfers: local
    duplicate_count,       \* process_transfers: local
    dg_messages,           \* history: the send_message calls of this iteration
    dg_log,                \* history: the outcome of every iteration, in order
    \* ---- polling monitor ----------------------------------------------
    mn_pc,                 \* position inside Monitor::run / monitor_blocks
    mn_block,              \* block.transactions of the poll under way
    mn_i,                  \* number of transactions of the block gone through
    alert_sent,            \* table large_transaction_alerts: the hashes marked
    mn_result,             \* what the last monitor_blocks returned
    mn_polls,              \* number of polls that have returned
    mn_log                 \* history: dispatches, marks and suppressions, in order

wdVars == <<now, pc, notification_state, monitor_config, current_block_number,
            cached_index_number, monitor_result, dispatch_result, notify_log,
            state_before, lookup>>
tgVars == <<message, retries, send_pc, send_result, calls, backoff>>
hxVars == <<hex_amount, hx_pc, bytes, padded_bytes, hx_i, amount, hx_result,
            hx_src>>
bkVars == <<bk_caller, block_views, bk_pc, txn_hashes_to_fetch, full_transactions,
            all_transactions, fetch_i, fetch_log, full_txns, txn_i, sends, bk_result>>
sbVars == <<sb_caller, sb_pc, stream, stream_ends, lines, pulled, handled, returned,
            subscribed, sb_input, sb_result>>
dgVars == <<dg_caller, dg_pc, dg_now, hits, hit_i, large_transfers, seen_hashes,
            duplicate_count, dg_messages, dg_log>>
mnVars == <<mn_pc, mn_block, mn_i, alert_sent, mn_result, mn_polls, mn_log>>
\* the variables of the components modelled after the watchdog and the dispatcher
restVars == <<hxVars, bkVars, sbVars, dgVars, mnVars>>
\* the variables parse_hex_amount leaves alone
notHx == <<wdVars, tgVars, bkVars, sbVars, dgVars, mnVars>>
\* the variables the block pipeline leaves alone
notBk == <<wdVars, tgVars, hxVars, sbVars, dgVars, mnVars>>
\* the variables the subscription loop leaves alone
notSb == <<wdVars, tgVars, hxVars, bkVars, dgVars, mnVars>>
\* the variables the daily digest leaves alone
notDg == <<wdVars, tgVars, hxVars, bkVars, sbVars, mnVars>>
\* the variables the polling monitor leaves alone
notMn == <<wdVars, tgVars, hxVars, bkVars, sbVars, dgVars>>
vars == <<wdVars, tgVars, restVars>>

\* Option<T>
None == [some |-> FALSE]
Some(v) == [some |-> TRUE, value |-> v]

\* Result<T>, and the outcome of a call that panics
Ok(v) == [kind |-> "Ok", value |-> v]
Err == [kind |-> "Err"]
Panic == [kind |-> "Panic"]
\* ()
Unit == <<>>

-----------------------------------------------------------------------------
(* Bounds of the model                                                     *)

\* the clock when the process starts (any positive second)
StartTime == 1
\* the model stops the clock this many seconds after StartTime
TimeHorizon == 1300
\* the lowest cached height the collaborators report besides 0
BaseHeight == 100
\* SpecLogic: heights range over 0 .. MaxSmallHeight
MaxSmallHeight == 3
\* SpecLogic: the clock ranges over StartTime .. StartTime + SmallHorizon
SmallHorizon == 4
\* SpecSend: messages are at most this many characters long
MaxMsgLen == 3
\* SpecHex: byte sequences of 0 .. MaxBytes bytes are encoded and parsed
MaxBytes == 18
\* SpecHex: every string of at most MaxHexLen characters is parsed
MaxHexLen == 3

-----------------------------------------------------------------------------
(* index_monitor_logic.rs                                                  *)

\* IndexMonitorConfig::default()
DefaultMaxBlockDifference == 1000
DefaultMaxNotifyTimeInterval == 600
IndexMonitorConfigDefault ==
    [max_block_difference     |-> DefaultMaxBlockDifference,
     max_notify_time_interval |-> DefaultMaxNotifyTimeInterval]

\* NotificationState::default()
NotificationStateDefault == [latest_notify_time |-> 0]

\* enum IndexMonitorResult
NoAction == [kind |-> "NoAction"]
ShouldWait == [kind |-> "ShouldWait"]
ShouldNotify(current_block, cached_block, difference) ==
    [kind |-> "ShouldNotify", current_block |-> current_block,
     cached_block |-> cached_block, difference |-> difference]

\* mutant: the comparison is off by one
is_current_block_behind_off_by_one(current_block, cached_block) ==
    current_block + 1 < cached_block

is_current_block_behind(current_block, cached_block) ==
    current_block < cached_block

\* mutant: the comparison with the maximum is not strict
has_significant_block_difference_ge(current_block, cached_block, max_difference) ==
    IF current_block <= cached_block
    THEN FALSE
    ELSE current_block - cached_block >= max_difference

has_significant_block_difference(current_block, cached_block, max_difference) ==
    IF current_block <= cached_block
    THEN FALSE
    ELSE current_block - cached_block > max_difference

\* mutant: the comparison with the interval is not strict
should_notify_based_on_time_ge(latest_notify_time, max_interval, current_time) ==
    IF latest_notify_time = 0
    THEN TRUE
    ELSE current_time - latest_notify_time >= max_interval

\* mutant: the "never notified" case is missing
should_notify_based_on_time_no_first(latest_notify_time, max_interval, current_time) ==
    current_time - latest_notify_time > max_interval

\* mutant: "never notified" is tested the wrong way round and joined with ||
should_notify_based_on_time_nonzero_or(latest_notify_time, max_interval, current_time) ==
    latest_notify_time # 0 \/ current_time - latest_notify_time > max_interval

\* current_time is the clock read inside the function (Utc::now())
should_notify_based_on_time(latest_notify_time, max_interval, current_time) ==
    IF latest_notify_time = 0
    THEN TRUE
    ELSE current_time - latest_notify_time > max_interval

check_index_monitor_state(current_block, cached_block, state, config, current_time) ==
    IF is_current_block_behind(current_block, cached_block)
    THEN ShouldWait
    ELSE IF has_significant_block_difference(current_block, cached_block,
                                             config.max_block_difference)
            /\ should_notify_based_on_time(state.latest_notify_time,
                                           config.max_notify_time_interval,
                                           current_time)
         THEN ShouldNotify(current_block, cached_block, current_block - cached_block)
         ELSE NoAction

\* mutant: the state takes the clock in milliseconds (timestamp_millis)
update_notification_state_millis(state, current_time) ==
    [state EXCEPT !.latest_notify_time = current_time * 1000]

\* mutant: the state is reset to "never notified"
update_notification_state_reset(state, current_time) ==
    [state EXCEPT !.latest_notify_time = 0]

\* the state after update_notification_state(&mut state) at clock current_time
update_notification_state(state, current_time) ==
    [state EXCEPT !.latest_notify_time = current_time]

-----------------------------------------------------------------------------
(* telegram.rs: state of the dispatcher while the watchdog runs            *)

TgIdle ==
    /\ message = <<>>
    /\ retries = 0
    /\ send_pc = "idle"
    /\ send_result = "none"
    /\ calls = <<>>
    /\ backoff = <<>>

\* parse_hex_amount is not being called
HxIdle ==
    /\ hex_amount = <<>>
    /\ hx_pc = "idle"
    /\ bytes = <<>>
    /\ padded_bytes = <<>>
    /\ hx_i = 0
    /\ amount = <<>>
    /\ hx_result = [kind |-> "none"]
    /\ hx_src = [kind |-> "text"]

\* neither dispatch_block nor extract_full_txn_from_block_view is being called
BkIdle ==
    /\ bk_caller = "idle"
    /\ block_views = <<>>
    /\ bk_pc = "idle"
    /\ txn_hashes_to_fetch = <<>>
    /\ full_transactions = <<>>
    /\ all_transactions = <<>>
    /\ fetch_i = 0
    /\ fetch_log = <<>>
    /\ full_txns = <<>>
    /\ txn_i = 0
    /\ sends = <<>>
    /\ bk_result = [kind |-> "none"]

\* no subscription is running
SbIdle ==
    /\ sb_caller = "idle"
    /\ sb_pc = "idle"
    /\ stream = <<>>
    /\ stream_ends = FALSE
    /\ lines = <<>>
    /\ pulled = <<>>
    /\ handled = <<>>
    /\ returned = 0
    /\ subscribed = 0
    /\ sb_input = [stream |-> <<>>, lines |-> <<>>]
    /\ sb_result = [kind |-> "none"]

\* the daily digest is not running
DgIdle ==
    /\ dg_caller = "idle"
    /\ dg_pc = "idle"
    /\ dg_now = 0
    /\ hits = <<>>
    /\ hit_i = 0
    /\ large_transfers = <<>>
    /\ seen_hashes = {}
    /\ duplicate_count = 0
    /\ dg_messages = <<>>
    /\ dg_log = <<>>

MnIdle ==
    /\ mn_pc = "idle"
    /\ mn_block = <<>>
    /\ mn_i = 0
    /\ alert_sent = {}
    /\ mn_result = "none"
    /\ mn_polls = 0
    /\ mn_log = <<>>

\* the components modelled after the watchdog and the dispatcher are at rest
RestIdle == HxIdle /\ BkIdle /\ SbIdle /\ DgIdle /\ MnIdle

-----------------------------------------------------------------------------
(* stcscan_monitor.rs: StcScanMonitor::run                                 *)

\* std::thread::sleep(Duration::from_millis(50000)), in seconds
SleepSeconds == 50

\* heights the chain and the index cache may report: nothing, a base height,
\* and heights exactly at and one above the default maximum difference
Heights ==
    {0, BaseHeight, BaseHeight + DefaultMaxBlockDifference,
     BaseHeight + DefaultMaxBlockDifference + 1}

\* a sleep lasts at least SleepSeconds; the longer ones stand for a loaded
\* host and bring the clock exactly to and one past the default interval
SleepDurations ==
    {SleepSeconds, DefaultMaxNotifyTimeInterval, DefaultMaxNotifyTimeInterval + 1}

\* seconds a dispatch may take (round trips, retries)
DispatchElapsed == {0, 1}

NoResult == [kind |-> "None"]

\* what the index-cache endpoint answers to one lookup: the request fails, the
\* status is not a success, the body cannot be read, the body is not JSON, the
\* JSON lacks main.0727.blocks...tip.block_number (or it is no u64), or the
\* JSON carries a height
LookupFailures == {"request_failed", "bad_status", "unreadable_body", "bad_json"}
NoLookup == [kind |-> "none"]
Failure(k) == [kind |-> k]
MissingField == [kind |-> "missing_field"]
Height(n) == [kind |-> "height", block_number |-> n]
LookupResponses ==
    {Failure(k) : k \in LookupFailures} \cup {MissingField} \cup {Height(n) : n \in Heights}

\* get_cached_index_block_numer: `?` on send, bail! on the status, `?` on
\* text() and on from_str; the chain of get(..) ends in .unwrap_or(0u64)
get_cached_index_block_numer(response) ==
    IF response.kind \in LookupFailures THEN Err
    ELSE IF response.kind = "missing_field" THEN Ok(0)
    ELSE Ok(response.block_number)

InitRun ==
    /\ now = StartTime
    /\ pc = "loop"
    /\ notification_state = NotificationStateDefault
    /\ monitor_config = IndexMonitorConfigDefault
    /\ current_block_number = 0
    /\ cached_index_number = 0
    /\ monitor_result = NoResult
    /\ dispatch_result = "none"
    /\ notify_log = <<>>
    /\ state_before = NotificationStateDefault
    /\ lookup = NoLookup
    /\ TgIdle
    /\ RestIdle

\* rpc_client.chain_info().expect(..).head.number.0
ChainInfoOk ==
    /\ pc = "loop"
    /\ \E n \in Heights : current_block_number' = n
    /\ pc' = "get_cached"
    /\ monitor_result' = NoResult
    /\ dispatch_result' = "none"
    /\ state_before' = notification_state
    /\ UNCHANGED <<now, notification_state, monitor_config, cached_index_number,
                   notify_log, lookup, tgVars, restVars>>

\* chain_info() fails: expect() panics and the thread ends
ChainInfoPanic ==
    /\ pc = "loop"
    /\ pc' = "panicked"
    /\ monitor_result' = NoResult
    /\ dispatch_result' = "none"
    /\ state_before' = notification_state
    /\ UNCHANGED <<now, notification_state, monitor_config, current_block_number,
                   cached_index_number, notify_log, lookup, tgVars, restVars>>

\* get_cached_index_block_numer(..) returns Ok(block_number)
GetCachedOk ==
    /\ pc = "get_cached"
    /\ \E response \in {r \in LookupResponses : get_cached_index_block_numer(r).kind = "Ok"} :
          /\ lookup' = response
          /\ cached_index_number' = get_cached_index_block_numer(response).value
    /\ pc' = "check"
    /\ UNCHANGED <<now, notification_state, monitor_config, current_block_number,
                   monitor_result, dispatch_result, notify_log, state_before,
                   tgVars, restVars>>

\* get_cached_index_block_numer(..) returns Err: log, sleep, continue
GetCachedErr ==
    /\ pc = "get_cached"
    /\ \E response \in {r \in LookupResponses : get_cached_index_block_numer(r).kind = "Err"} :
          lookup' = response
    /\ pc' = "sleep"
    /\ UNCHANGED <<now, notification_state, monitor_config, current_block_number,
                   cached_index_number, monitor_result, dispatch_result, notify_log,
                   state_before, tgVars, restVars>>

\* let monitor_result = check_index_monitor_state(..)
Check ==
    /\ pc = "check"
    /\ monitor_result' = check_index_monitor_state(current_block_number,
                            cached_index_number, notification_state,
                            monitor_config, now)
    /\ pc' = "match"
    /\ UNCHANGED <<now, notification_state, monitor_config, current_block_number,
                   cached_index_number, dispatch_result, notify_log, state_before, lookup,
                   tgVars, restVars>>

\* IndexMonitorResult::ShouldWait => sleep, continue
MatchShouldWait ==
    /\ pc = "match"
    /\ monitor_result.kind = "ShouldWait"
    /\ pc' = "sleep"
    /\ UNCHANGED <<now, notification_state, monitor_config, current_block_number,
                   cached_index_number, monitor_result, dispatch_result, notify_log,
                   state_before, lookup, tgVars, restVars>>

\* mutant: update_notification_state is called after the match, not in its
\* ShouldNotify arm
MatchNoAction_then_update ==
    /\ pc = "match"
    /\ monitor_result.kind = "NoAction"
    /\ notification_state' = update_notification_state(notification_state, now)
    /\ pc' = "sleep"
    /\ UNCHANGED <<now, monitor_config, current_block_number, cached_index_number,
                   monitor_result, dispatch_result, notify_log, state_before, lookup, tgVars, restVars>>

\* IndexMonitorResult::NoAction => {}
MatchNoAction ==
    /\ pc = "match"
    /\ monitor_result.kind = "NoAction"
    /\ pc' = "sleep"
    /\ UNCHANGED <<now, notification_state, monitor_config, current_block_number,
                   cached_index_number, monitor_result, dispatch_result, notify_log,
                   state_before, lookup, tgVars, restVars>>

\* IndexMonitorResult::ShouldNotify => let _ = dispatcher.dispatch_stcscan_index_exception(..).await
\* The dispatcher is a dyn MonitorDispatcher: it returns Ok or Err after some
\* time; the result is discarded by `let _ =`.
MatchShouldNotify ==
    /\ pc = "match"
    /\ monitor_result.kind = "ShouldNotify"
    /\ \E r \in {"ok", "err"} : dispatch_result' = r
    /\ \E e \in DispatchElapsed :
          /\ now + e <= StartTime + TimeHorizon
          /\ now' = now + e
    /\ notify_log' = Append(notify_log, now)
    /\ pc' = "update"
    /\ UNCHANGED <<notification_state, monitor_config, current_block_number,
                   cached_index_number, monitor_result, state_before, lookup, tgVars, restVars>>

\* update_notification_state(&mut notification_state), whatever the dispatch returned
UpdateState ==
    /\ pc = "update"
    /\ notification_state' = update_notification_state(notification_state, now)
    /\ pc' = "sleep"
    /\ UNCHANGED <<now, monitor_config, current_block_number, cached_index_number,
                   monitor_result, dispatch_result, notify_log, state_before, lookup, tgVars, restVars>>

\* std::thread::sleep(..) / tokio::time::sleep(..), then the next iteration
Sleep ==
    /\ pc = "sleep"
    /\ \E d \in SleepDurations :
          /\ now + d <= StartTime + TimeHorizon
          /\ now' = now + d
    /\ pc' = "loop"
    /\ lookup' = NoLookup
    /\ UNCHANGED <<notification_state, monitor_config, current_block_number,
                   cached_index_number, monitor_result, dispatch_result, notify_log,
                   state_before, tgVars, restVars>>

NextRun ==
    \/ ChainInfoOk
    \/ ChainInfoPanic
    \/ GetCachedOk
    \/ GetCachedErr
    \/ Check
    \/ MatchShouldWait
    \/ MatchNoAction
    \/ MatchShouldNotify
    \/ UpdateState
    \/ Sleep

Init == InitRun
Next == NextRun
Spec == Init /\ [][Next]_vars

-----------------------------------------------------------------------------
(* SpecLogic: the decision functions of index_monitor_logic.rs called on    *)
(* arbitrary heights, notification states and configurations, the way the  *)
(* unit tests of index_monitor_logic.rs call them.                         *)

SmallHeights == 0 .. MaxSmallHeight

\* configurations: a zero and a non-zero maximum difference and interval
LogicConfigs ==
    {[max_block_difference |-> d, max_notify_time_interval |-> i] :
        d \in {0, 2}, i \in {0, 2}}

InitLogic ==
    /\ now = StartTime
    /\ pc = "idle"
    /\ notification_state \in {[latest_notify_time |-> t] : t \in {0, StartTime}}
    /\ monitor_config \in LogicConfigs
    /\ current_block_number = 0
    /\ cached_index_number = 0
    /\ monitor_result = NoResult
    /\ dispatch_result = "none"
    /\ notify_log = <<>>
    /\ state_before = notification_state
    /\ lookup = NoLookup
    /\ TgIdle
    /\ RestIdle

\* let result = check_index_monitor_state(current, cached, &state, &config)
LogicCheck ==
    /\ pc = "idle"
    /\ \E c \in SmallHeights, k \in SmallHeights :
          /\ current_block_number' = c
          /\ cached_index_number' = k
          /\ monitor_result' = check_index_monitor_state(c, k, notification_state,
                                                         monitor_config, now)
    /\ state_before' = notification_state
    /\ pc' = "checked"
    /\ UNCHANGED <<now, notification_state, monitor_config, dispatch_result,
                   notify_log, lookup, tgVars, restVars>>

\* if let ShouldNotify { .. } = result { update_notification_state(&mut state) }
LogicNotified ==
    /\ pc = "checked"
    /\ monitor_result.kind = "ShouldNotify"
    /\ notification_state' = update_notification_state(notification_state, now)
    /\ notify_log' = Append(notify_log, now)
    /\ pc' = "idle"
    /\ UNCHANGED <<now, monitor_config, current_block_number, cached_index_number,
                   monitor_result, dispatch_result, state_before, lookup, tgVars, restVars>>

\* the result is only looked at
LogicReturn ==
    /\ pc = "checked"
    /\ pc' = "idle"
    /\ UNCHANGED <<now, notification_state, monitor_config, current_block_number,
                   cached_index_number, monitor_result, dispatch_result, notify_log,
                   state_before, lookup, tgVars, restVars>>

\* update_notification_state(&mut state) called on its own
LogicUpdate ==
    /\ pc = "idle"
    /\ notification_state' = update_notification_state(notification_state, now)
    /\ UNCHANGED <<now, pc, monitor_config, current_block_number, cached_index_number,
                   monitor_result, dispatch_result, notify_log, state_before, lookup, tgVars, restVars>>

\* the clock moves on between two calls
LogicAdvance ==
    /\ pc = "idle"
    /\ now < StartTime + SmallHorizon
    /\ now' = now + 1
    /\ UNCHANGED <<pc, notification_state, monitor_config, current_block_number,
                   cached_index_number, monitor_result, dispatch_result, notify_log,
                   state_before, lookup, tgVars, restVars>>

NextLogic ==
    \/ LogicCheck
    \/ LogicNotified
    \/ LogicReturn
    \/ LogicUpdate
    \/ LogicAdvance

SpecLogic == InitLogic /\ [][NextLogic]_vars

-----------------------------------------------------------------------------
(* telegram.rs: TelegramBot::send_message_to_chat                          *)

\* the watchdog is not running while one send is followed
WdIdle ==
    /\ now = StartTime
    /\ pc = "idle"
    /\ notification_state = NotificationStateDefault
    /\ monitor_config = IndexMonitorConfigDefault
    /\ current_block_number = 0
    /\ cached_index_number = 0
    /\ monitor_result = NoResult
    /\ dispatch_result = "none"
    /\ notify_log = <<>>
    /\ state_before = NotificationStateDefault
    /\ lookup = NoLookup

\* mutant: the full stop is missing from the list
special_chars_without_dot ==
    {"_", "*", "[", "]", "(", ")", "~", "GRAVE", ">", "#", "+", "-", "=", "|", "{", "}",
     "!"}

\* let special_chars = [...]; a character is a one-character string, except
\* the grave accent, which a TLA+ string cannot hold and is written "GRAVE"
special_chars ==
    {"_", "*", "[", "]", "(", ")", "~", "GRAVE", ">", "#", "+", "-", "=", "|", "{", "}",
     ".", "!"}

\* for ch in text.chars() { if special_chars.contains(&ch) { push('\\') } push(ch) }
RECURSIVE escape_markdown_v2(_)
escape_markdown_v2(text) ==
    IF text = <<>>
    THEN <<>>
    ELSE (IF Head(text) \in special_chars THEN <<"\\", Head(text)>> ELSE <<Head(text)>>)
         \o escape_markdown_v2(Tail(text))

\* let max_retries = 3
max_retries == 3

\* mutant: the fallback is taken one failure late
retries_exhausted_late(r) == r > max_retries

\* mutant: the fallback is taken one failure early
retries_exhausted_early(r) == r + 1 >= max_retries

\* if retries >= max_retries
retries_exhausted(r) == r >= max_retries

\* Duration::from_secs(2 * (retries + 1))
backoff_secs(r) == 2 * (r + 1)

\* characters of a message: a plain one, two reserved ones, the escape character
MsgChars == {"a", "_", ".", "\\"}

RECURSIVE SeqsUpTo(_, _)
SeqsUpTo(S, n) ==
    IF n = 0
    THEN {<<>>}
    ELSE LET shorter == SeqsUpTo(S, n - 1)
         IN  shorter \cup {Append(q, c) : q \in shorter, c \in S}

\* one message around each punctuation character of the ASCII range that a
\* TLA+ string can hold (reserved or not)
PunctuationMessages ==
    {<<c, "a", c>> :
        c \in {"_", "*", "[", "]", "(", ")", "~", "GRAVE", ">", "#", "+", "-", "=", "|",
               "{", "}", ".", "!", ",", ":", ";", "<", "?", "@", "&", "%", "$", "/"}}

Messages == SeqsUpTo(MsgChars, MaxMsgLen) \cup PunctuationMessages

\* send_message_to_chat(chat_id, message) is entered: the message is escaped,
\* retries = 0 and the loop is at its first formatted attempt
InitSend ==
    /\ message \in Messages
    /\ retries = 0
    /\ send_pc = "formatted"
    /\ send_result = "none"
    /\ calls = <<>>
    /\ backoff = <<>>
    /\ WdIdle
    /\ RestIdle

FormattedCall(ok) ==
    [text |-> escape_markdown_v2(message), parse_mode |-> "MarkdownV2", ok |-> ok]

\* mutant: the fallback sends the escaped text
PlainCall_escaped(ok) ==
    [text |-> escape_markdown_v2(message), parse_mode |-> "None", ok |-> ok]

PlainCall(ok) ==
    [text |-> message, parse_mode |-> "None", ok |-> ok]

\* bot.send_message(chat_id, &escaped_message).parse_mode(MarkdownV2) => Ok(_)
SendFormattedOk ==
    /\ send_pc = "formatted"
    /\ calls' = Append(calls, FormattedCall(TRUE))
    /\ send_result' = "ok"
    /\ send_pc' = "done"
    /\ UNCHANGED <<message, retries, backoff, wdVars, restVars>>

\* ... => Err(e): fall back when the retries are used up, else back off
SendFormattedErr ==
    /\ send_pc = "formatted"
    /\ calls' = Append(calls, FormattedCall(FALSE))
    /\ send_pc' = IF retries_exhausted(retries) THEN "plain" ELSE "backoff"
    /\ UNCHANGED <<message, retries, send_result, backoff, wdVars, restVars>>

\* mutant: retries is not incremented
Backoff_no_increment ==
    /\ send_pc = "backoff"
    /\ backoff' = Append(backoff, backoff_secs(retries))
    /\ send_pc' = "formatted"
    /\ UNCHANGED <<message, retries, send_result, calls, wdVars, restVars>>

\* tokio::time::sleep(2 * (retries + 1)); retries += 1
Backoff ==
    /\ send_pc = "backoff"
    /\ backoff' = Append(backoff, backoff_secs(retries))
    /\ retries' = retries + 1
    /\ send_pc' = "formatted"
    /\ UNCHANGED <<message, send_result, calls, wdVars, restVars>>

\* bot.send_message(chat_id, message) => Ok(_)
SendPlainOk ==
    /\ send_pc = "plain"
    /\ calls' = Append(calls, PlainCall(TRUE))
    /\ send_result' = "ok"
    /\ send_pc' = "done"
    /\ UNCHANGED <<message, retries, backoff, wdVars, restVars>>

\* bot.send_message(chat_id, message) => Err(e2): return Err(..)
SendPlainErr ==
    /\ send_pc = "plain"
    /\ calls' = Append(calls, PlainCall(FALSE))
    /\ send_result' = "err"
    /\ send_pc' = "done"
    /\ UNCHANGED <<message, retries, backoff, wdVars, restVars>>

NextSend ==
    \/ SendFormattedOk
    \/ SendFormattedErr
    \/ Backoff
    \/ SendPlainOk
    \/ SendPlainErr

SpecSend == InitSend /\ [][NextSend]_vars

-----------------------------------------------------------------------------
(* Properties of the index-lag watchdog                                    *)

\* C1 (Spec): two notifications are never dispatched within
\* max_notify_time_interval seconds of each other: any two dispatches of the
\* poll loop are more than the interval apart, and a dispatch that follows a
\* notification which set latest_notify_time = t happens at a clock with
\* now - t > max_notify_time_interval.
C1_AtMostOneNotificationPerInterval ==
    /\ \A i \in 1 .. Len(notify_log), j \in 1 .. Len(notify_log) :
          i < j => notify_log[j] - notify_log[i] > monitor_config.max_notify_time_interval
    /\ (pc = "update" /\ notification_state.latest_notify_time # 0)
          => notify_log[Len(notify_log)] - notification_state.latest_notify_time
                > monitor_config.max_notify_time_interval

\* C1 witness: a second notification has been dispatched while the gap lasted
C1_Witness ==
    /\ Len(notify_log) >= 2
    /\ pc = "update"
    /\ notification_state.latest_notify_time # 0

\* C2 (SpecLogic): for current < cached, whatever the notification state and
\* the configuration, check_index_monitor_state returns ShouldWait and the
\* notification state is the one the call was given.
C2_BehindShouldWait ==
    (pc = "checked" /\ current_block_number < cached_index_number)
        => /\ monitor_result = ShouldWait
           /\ notification_state = state_before

\* C2 witness: a call with current < cached in a state that has notified
C2_Witness ==
    /\ pc = "checked"
    /\ current_block_number + 1 = cached_index_number
    /\ notification_state.latest_notify_time # 0
    /\ monitor_result = ShouldWait

\* C3 (SpecLogic): with current - cached > max_block_difference and
\* latest_notify_time = 0 the result is ShouldNotify carrying current, cached
\* and difference = current - cached, for every interval.
C3_FirstNotification ==
    (/\ pc = "checked"
     /\ current_block_number > cached_index_number
     /\ current_block_number - cached_index_number > monitor_config.max_block_difference
     /\ state_before.latest_notify_time = 0)
        => monitor_result = ShouldNotify(current_block_number, cached_index_number,
                                current_block_number - cached_index_number)

\* C3 witness: a first notification under a non-zero interval that the clock
\* has not yet exceeded, with a non-zero cached height
C3_Witness ==
    /\ pc = "checked"
    /\ state_before.latest_notify_time = 0
    /\ monitor_config.max_notify_time_interval > 0
    /\ now <= monitor_config.max_notify_time_interval
    /\ cached_index_number > 0
    /\ monitor_result.kind = "ShouldNotify"

\* C4 (SpecLogic): after a ShouldNotify result followed by
\* update_notification_state, a repeat call whose gap still exceeds
\* max_block_difference and for which now - latest_notify_time <=
\* max_notify_time_interval returns NoAction.
C4_RepeatWithinIntervalNoAction ==
    (/\ pc = "checked"
     /\ Len(notify_log) > 0
     /\ current_block_number > cached_index_number
     /\ current_block_number - cached_index_number > monitor_config.max_block_difference
     /\ now - state_before.latest_notify_time <= monitor_config.max_notify_time_interval)
        => monitor_result = NoAction

\* C4 witness: such a repeat call, made after the clock has moved on
C4_Witness ==
    /\ pc = "checked"
    /\ Len(notify_log) > 0
    /\ current_block_number - cached_index_number > monitor_config.max_block_difference
    /\ now > state_before.latest_notify_time
    /\ now - state_before.latest_notify_time <= monitor_config.max_notify_time_interval
    /\ monitor_result = NoAction

\* C5 (SpecLogic): for current >= cached with current - cached <=
\* max_block_difference (a zero difference and a difference equal to the
\* maximum included) the result is NoAction in every notification state.
C5_GapNotExceededNoAction ==
    (/\ pc = "checked"
     /\ current_block_number >= cached_index_number
     /\ current_block_number - cached_index_number <= monitor_config.max_block_difference)
        => monitor_result = NoAction

\* C5 witness: a difference exactly equal to a non-zero maximum, never notified
C5_Witness ==
    /\ pc = "checked"
    /\ monitor_config.max_block_difference > 0
    /\ current_block_number - cached_index_number = monitor_config.max_block_difference
    /\ state_before.latest_notify_time = 0
    /\ monitor_result = NoAction

\* C6 (SpecLogic): when the gap exceeds max_block_difference and
\* latest_notify_time # 0, the result is ShouldNotify exactly if
\* now - latest_notify_time > max_notify_time_interval, and NoAction otherwise
\* (NoAction exactly at the interval, ShouldNotify one second later).
C6_NotifyIffIntervalElapsed ==
    (/\ pc = "checked"
     /\ current_block_number > cached_index_number
     /\ current_block_number - cached_index_number > monitor_config.max_block_difference
     /\ state_before.latest_notify_time # 0)
        => IF now - state_before.latest_notify_time
                > monitor_config.max_notify_time_interval
           THEN monitor_result.kind = "ShouldNotify"
           ELSE monitor_result = NoAction

\* C6 witness: a call exactly at a non-zero interval
C6_Witness ==
    /\ pc = "checked"
    /\ current_block_number - cached_index_number > monitor_config.max_block_difference
    /\ state_before.latest_notify_time # 0
    /\ monitor_config.max_notify_time_interval > 0
    /\ now - state_before.latest_notify_time = monitor_config.max_notify_time_interval
    /\ monitor_result = NoAction

\* C7 (SpecLogic): latest_notify_time never decreases, over every sequence of
\* ticks and update_notification_state calls.
C7_LatestNotifyTimeMonotonic ==
    [][notification_state'.latest_notify_time
          >= notification_state.latest_notify_time]_vars

\* C7 witness: the state has been updated from one notification time to a
\* later one
C7_Witness ==
    /\ Len(notify_log) >= 2
    /\ notification_state.latest_notify_time = notify_log[Len(notify_log)]
    /\ notify_log[1] < notify_log[Len(notify_log)]

\* C8 (Spec): a tick whose result is ShouldWait or NoAction leaves the
\* notification state as it was when the tick began;
\* check_index_monitor_state does not change it; it differs from its value at
\* the start of the tick only if the tick's result is ShouldNotify.
C8_OnlyShouldNotifyMutates ==
    /\ pc = "match" => notification_state = state_before
    /\ (pc = "sleep" /\ monitor_result.kind \in {"ShouldWait", "NoAction"})
          => notification_state = state_before
    /\ notification_state # state_before => monitor_result.kind = "ShouldNotify"

\* C8 witness: a suppressed tick (NoAction while the gap lasts) has ended with
\* the state of an earlier notification
C8_Witness ==
    /\ pc = "sleep"
    /\ monitor_result = NoAction
    /\ current_block_number - cached_index_number > monitor_config.max_block_difference
    /\ notification_state.latest_notify_time # 0
    /\ notification_state = state_before

\* C9 (Spec): when the dispatch of an index-lag notification fails, the
\* notification state keeps the value it had before the tick.
C9_FailedDispatchKeepsState ==
    (pc = "sleep" /\ dispatch_result = "err") => notification_state = state_before

-----------------------------------------------------------------------------
(* Properties of the dispatcher                                            *)

\* C10 as stated (SpecSend): when the first 3 transport calls fail and the
\* 4th succeeds, send returns success after exactly 4 calls and the 4th call
\* is the plain-text fallback (sent without formatting).
C10_FourthCallIsFallback ==
    (/\ send_pc = "done"
     /\ Len(calls) >= 4
     /\ \A i \in 1 .. 3 : ~calls[i].ok
     /\ calls[4].ok)
        => /\ send_result = "ok"
           /\ Len(calls) = 4
           /\ calls[4].parse_mode = "None"

\* C10 as amended (SpecSend): when the first 4 transport calls -- the first
\* formatted attempt and its 3 retries -- fail and the 5th succeeds, send
\* returns success after exactly 5 calls, the first 4 formatted and the 5th,
\* the fallback, without formatting and with the unescaped text; when only
\* the first 3 calls fail, the 4th call is still a formatted one, and send
\* returns success after exactly 4 calls.
C10_FifthCallIsFallback ==
    /\ (/\ send_pc = "done"
        /\ Len(calls) >= 5
        /\ \A i \in 1 .. 4 : ~calls[i].ok
        /\ calls[5].ok)
          => /\ send_result = "ok"
             /\ Len(calls) = 5
             /\ \A i \in 1 .. 4 : calls[i].parse_mode = "MarkdownV2"
             /\ calls[5].parse_mode = "None"
             /\ calls[5].text = message
    /\ (/\ send_pc = "done"
        /\ Len(calls) >= 4
        /\ \A i \in 1 .. 3 : ~calls[i].ok
        /\ calls[4].ok)
          => /\ send_result = "ok"
             /\ Len(calls) = 4
             /\ calls[4].parse_mode = "MarkdownV2"

\* C10 witness: four formatted attempts failed and the fallback went through,
\* for a message that escaping changes
C10_Witness ==
    /\ send_pc = "done"
    /\ Len(calls) = 5
    /\ \A i \in 1 .. 4 : ~calls[i].ok
    /\ calls[5].ok
    /\ escape_markdown_v2(message) # message

\* the transport calls of the running send made with / without formatting
FormattedIndexes == {i \in 1 .. Len(calls) : calls[i].parse_mode = "MarkdownV2"}
PlainIndexes == {i \in 1 .. Len(calls) : calls[i].parse_mode = "None"}

\* C11 (SpecSend): one call of send_message_to_chat makes at most
\* 1 + max_retries = 4 formatted transport calls, whatever the transport
\* does; a formatted call other than the first follows a failed formatted one.
C11_AtMostFourFormattedCalls ==
    /\ Cardinality(FormattedIndexes) <= 1 + max_retries
    /\ \A i \in FormattedIndexes :
          i > 1 => (calls[i - 1].parse_mode = "MarkdownV2" /\ ~calls[i - 1].ok)

\* C11 witness: the fourth formatted attempt has been made
C11_Witness ==
    /\ Cardinality(FormattedIndexes) = 1 + max_retries
    /\ retries = max_retries

\* C12 (SpecSend): the unformatted attempt is made at most once, as the last
\* transport call, after 1 + max_retries formatted attempts that all failed,
\* and it is made once all of them have failed; it carries the original text
\* and every formatted attempt carries the escaped text.
C12_FallbackOnceAfterAllFormattedFailed ==
    /\ Cardinality(PlainIndexes) <= 1
    /\ \A i \in PlainIndexes :
          /\ i = Len(calls)
          /\ i = 2 + max_retries
          /\ \A j \in 1 .. (i - 1) : calls[j].parse_mode = "MarkdownV2" /\ ~calls[j].ok
          /\ calls[i].text = message
    /\ \A i \in FormattedIndexes : calls[i].text = escape_markdown_v2(message)
    /\ (send_pc = "done" /\ \A i \in FormattedIndexes : ~calls[i].ok)
          => Cardinality(PlainIndexes) = 1

\* C12 witness: the fallback was made for a message that escaping changes
C12_Witness ==
    /\ send_pc = "done"
    /\ Cardinality(PlainIndexes) = 1
    /\ escape_markdown_v2(message) # message
    /\ ~calls[Len(calls)].ok

\* C13 (SpecSend): when every formatted attempt and the fallback fail, the
\* call returns an error and makes no further transport call; a call never
\* makes more than 2 + max_retries transport calls, and until it has returned
\* it can always take its next step.
C13_BoundedCallsThenError ==
    /\ Len(calls) <= 2 + max_retries
    /\ (send_pc = "done" /\ \A i \in 1 .. Len(calls) : ~calls[i].ok)
          => (send_result = "err" /\ Len(calls) = 2 + max_retries)
    /\ send_pc = "done" => (send_result \in {"ok", "err"} /\ ~ENABLED NextSend)
    /\ send_pc # "done" => (send_result = "none" /\ ENABLED NextSend)

\* C13 witness: every attempt failed and the call has returned the error
C13_Witness ==
    /\ send_pc = "done"
    /\ send_result = "err"
    /\ Len(calls) = 2 + max_retries
    /\ \A i \in 1 .. Len(calls) : ~calls[i].ok

\* the reserved characters as the claim lists them
C14_Reserved ==
    {"_", "*", "[", "]", "(", ")", "~", "GRAVE", ">", "#", "+", "-", "=", "|", "{", "}",
     ".", "!"}

\* the number of reserved characters among the first n characters of text
C14_ReservedUpTo(text, n) ==
    Cardinality({i \in 1 .. n : text[i] \in C14_Reserved})

\* text without the backslashes that stand right before a reserved character
RECURSIVE C14_RemoveInserted(_)
C14_RemoveInserted(text) ==
    IF text = <<>>
    THEN <<>>
    ELSE IF Head(text) = "\\" /\ Len(text) >= 2 /\ text[2] \in C14_Reserved
         THEN <<text[2]>> \o C14_RemoveInserted(SubSeq(text, 3, Len(text)))
         ELSE <<Head(text)>> \o C14_RemoveInserted(Tail(text))

\* C14 (SpecSend): the text of every formatted attempt is the message with
\* exactly one backslash put before every reserved character and nothing else
\* changed: its length is the message's plus the number of reserved
\* characters, character i of the message stands at position i + (reserved
\* characters up to i), right after a backslash if it is reserved, and
\* removing the inserted backslashes gives the message back.
C14_EscapePrefixesReserved ==
    \A k \in FormattedIndexes :
        LET out == calls[k].text
        IN  /\ Len(out) = Len(message) + C14_ReservedUpTo(message, Len(message))
            /\ \A i \in 1 .. Len(message) :
                  LET at == i + C14_ReservedUpTo(message, i)
                  IN  /\ out[at] = message[i]
                      /\ message[i] \in C14_Reserved => out[at - 1] = "\\"
            /\ C14_RemoveInserted(out) = message

\* C14 witness: a formatted attempt for a message that holds a backslash of
\* its own right before a reserved character, and a second reserved character
C14_Witness ==
    /\ message = <<"\\", "_", ".">>
    /\ FormattedIndexes # {}
    /\ calls[1].text = <<"\\", "\\", "_", "\\", ".">>

-----------------------------------------------------------------------------
(* daily_notification.rs: parse_hex_amount                                 *)
(*                                                                         *)
(* A string is a sequence of one-character strings.  A u128 is kept at its *)
(* full width, as the sequence of its 16 bytes, least significant first.   *)

\* size of a u128 in bytes: `bytes.len() > 16`, `vec![0u8; 16]`
U128Bytes == 16

\* if hex_amount.starts_with("0x") { &hex_amount[2..] } else { hex_amount }
strip_0x(s) ==
    IF Len(s) >= 2 /\ s[1] = "0" /\ s[2] = "x"
    THEN SubSeq(s, 3, Len(s))
    ELSE s

\* hex crate, val(): the digits 0-9, a-f and A-F
LowerDigits == <<"0", "1", "2", "3", "4", "5", "6", "7", "8", "9",
                 "a", "b", "c", "d", "e", "f">>
UpperDigits == <<"0", "1", "2", "3", "4", "5", "6", "7", "8", "9",
                 "A", "B", "C", "D", "E", "F">>

HexDigits == {LowerDigits[v] : v \in 1 .. 16} \cup {UpperDigits[v] : v \in 1 .. 16}

is_hex_char(c) == c \in HexDigits

hex_val(c) ==
    (CHOOSE v \in 1 .. 16 : LowerDigits[v] = c \/ UpperDigits[v] = c) - 1

\* mutant: the length is not looked at, a last single digit is dropped
hex_decode_ok_any_length(s) ==
    \A i \in 1 .. Len(s) : is_hex_char(s[i])

\* hex::decode: Err on an odd length or on a character that is no hex digit
hex_decode_ok(s) ==
    /\ Len(s) % 2 = 0
    /\ \A i \in 1 .. Len(s) : is_hex_char(s[i])

\* hex::decode, the bytes: every pair of digits is one byte, high digit first
hex_decode(s) ==
    [i \in 1 .. (Len(s) \div 2) |-> 16 * hex_val(s[2 * i - 1]) + hex_val(s[2 * i])]

\* mutant: one byte more than a u128 holds is let through
exceeds_u128_off_by_one(bs) == Len(bs) > U128Bytes + 1

\* if bytes.len() > 16 { bail!(..) }
exceeds_u128(bs) == Len(bs) > U128Bytes

\* let mut padded_bytes = vec![0u8; 16];
\* for (i, &byte) in bytes.iter().enumerate() { if i < 16 { padded_bytes[i] = byte } }
pad_bytes(bs) ==
    [i \in 1 .. U128Bytes |-> IF i <= Len(bs) THEN bs[i] ELSE 0]

\* 0u128
ZeroU128 == [i \in 1 .. U128Bytes |-> 0]

\* byte as u128
u128_from_u8(b) == [i \in 1 .. U128Bytes |-> IF i = 1 THEN b ELSE 0]

RECURSIVE Pow2(_)
Pow2(n) == IF n = 0 THEN 1 ELSE 2 * Pow2(n - 1)

\* u128::wrapping_shl(x, rhs): the shift is rhs modulo 128 bits, and the bits
\* pushed beyond bit 127 are lost
wrapping_shl(x, rhs) ==
    LET sh == rhs % (8 * U128Bytes)
        k  == sh \div 8
        r  == sh % 8
        at(j) == IF j >= 1 THEN x[j] ELSE 0
    IN  [i \in 1 .. U128Bytes |->
            ((at(i - k) * Pow2(r)) % 256) + (at(i - k - 1) \div Pow2(8 - r))]

\* the bytes i .. 16 of x + y, given the carry into byte i
RECURSIVE AddFrom(_, _, _, _)
AddFrom(x, y, i, carry) ==
    IF i > U128Bytes
    THEN <<>>
    ELSE LET sum == x[i] + y[i] + carry
         IN  <<sum % 256>> \o AddFrom(x, y, i + 1, sum \div 256)

\* u128::wrapping_add(x, y): the carry out of byte 16 is lost
wrapping_add(x, y) == AddFrom(x, y, 1, 0)

\* mutant: the shift counts bits, not bytes (i instead of i * 8)
sum_step_shift_i(acc, padded, i) ==
    wrapping_add(acc, wrapping_shl(u128_from_u8(padded[i + 1]), i))

\* mutant: the shifts start at 8, so that the last one is 128 and wraps to 0
sum_step_shift_from_8(acc, padded, i) ==
    wrapping_add(acc, wrapping_shl(u128_from_u8(padded[i + 1]), (i + 1) * 8))

\* amount = amount.wrapping_add((byte as u128).wrapping_shl((i * 8) as u32))
\* for the i-th (0-based) byte of padded
sum_step(acc, padded, i) ==
    wrapping_add(acc, wrapping_shl(u128_from_u8(padded[i + 1]), i * 8))

-----------------------------------------------------------------------------
(* SpecHex: the strings parse_hex_amount is called with                    *)

\* the hex encoding of a byte sequence with the given digits (hex::encode)
RECURSIVE hex_encode(_, _)
hex_encode(bs, digits) ==
    IF bs = <<>>
    THEN <<>>
    ELSE <<digits[(Head(bs) \div 16) + 1], digits[(Head(bs) % 16) + 1]>>
         \o hex_encode(Tail(bs), digits)

\* byte sequences of every length 0 .. MaxBytes: all bytes 0xff; the byte
\* 0x0a at one position among zero bytes; a different byte at every position;
\* and the amounts of test_parse_hex_amount
ByteSamples ==
    UNION {
        {[i \in 1 .. n |-> 255]}
        \cup {[i \in 1 .. n |-> IF i = k THEN 10 ELSE 0] : k \in 1 .. n}
        \cup {[i \in 1 .. n |-> (37 * i + 11) % 256]}
        : n \in 0 .. MaxBytes}
    \cup {<<100>>,
          <<88, 62, 41, 147, 166, 1, 0, 0, 0, 0, 0, 0, 0, 0, 0, 0>>}

\* characters of the other strings: hex digits of both cases, the x of the
\* prefix, a character that is no hex digit
HexTextChars == {"0", "x", "a", "F", "g"}

HexInputs ==
    {[text |-> p \o hex_encode(bs, d), src |-> [kind |-> "bytes", bytes |-> bs]] :
        p \in {<<>>, <<"0", "x">>}, bs \in ByteSamples, d \in {LowerDigits, UpperDigits}}
    \cup {[text |-> t, src |-> [kind |-> "text"]] : t \in SeqsUpTo(HexTextChars, MaxHexLen)}

\* parse_hex_amount(hex_amount) is entered
InitHex ==
    /\ \E in \in HexInputs :
          /\ hex_amount = in.text
          /\ hx_src = in.src
    /\ hx_pc = "decode"
    /\ bytes = <<>>
    /\ padded_bytes = <<>>
    /\ hx_i = 0
    /\ amount = <<>>
    /\ hx_result = [kind |-> "none"]
    /\ WdIdle
    /\ TgIdle
    /\ BkIdle
    /\ SbIdle
    /\ DgIdle
    /\ MnIdle

\* let bytes = hex::decode(hex_str)?  -- Err
HexDecodeErr ==
    /\ hx_pc = "decode"
    /\ ~hex_decode_ok(strip_0x(hex_amount))
    /\ hx_result' = [kind |-> "err"]
    /\ hx_pc' = "done"
    /\ UNCHANGED <<hex_amount, bytes, padded_bytes, hx_i, amount, hx_src, notHx>>

\* let bytes = hex::decode(hex_str)?  -- Ok
HexDecodeOk ==
    /\ hx_pc = "decode"
    /\ hex_decode_ok(strip_0x(hex_amount))
    /\ bytes' = hex_decode(strip_0x(hex_amount))
    /\ hx_pc' = "check_len"
    /\ UNCHANGED <<hex_amount, padded_bytes, hx_i, amount, hx_result, hx_src, notHx>>

\* if bytes.len() > 16 { anyhow::bail!(..) }
HexTooLong ==
    /\ hx_pc = "check_len"
    /\ exceeds_u128(bytes)
    /\ hx_result' = [kind |-> "err"]
    /\ hx_pc' = "done"
    /\ UNCHANGED <<hex_amount, bytes, padded_bytes, hx_i, amount, hx_src, notHx>>

\* the padding loop; let mut amount = 0u128
HexPad ==
    /\ hx_pc = "check_len"
    /\ ~exceeds_u128(bytes)
    /\ padded_bytes' = pad_bytes(bytes)
    /\ amount' = ZeroU128
    /\ hx_i' = 0
    /\ hx_pc' = "sum"
    /\ UNCHANGED <<hex_amount, bytes, hx_result, hx_src, notHx>>

\* one iteration of `for (i, &byte) in padded_bytes.iter().enumerate()`
HexSum ==
    /\ hx_pc = "sum"
    /\ hx_i < Len(padded_bytes)
    /\ amount' = sum_step(amount, padded_bytes, hx_i)
    /\ hx_i' = hx_i + 1
    /\ UNCHANGED <<hex_amount, hx_pc, bytes, padded_bytes, hx_result, hx_src, notHx>>

\* Ok(amount)
HexReturn ==
    /\ hx_pc = "sum"
    /\ hx_i = Len(padded_bytes)
    /\ hx_result' = [kind |-> "ok", amount |-> amount]
    /\ hx_pc' = "done"
    /\ UNCHANGED <<hex_amount, bytes, padded_bytes, hx_i, amount, hx_src, notHx>>

NextHex ==
    \/ HexDecodeErr
    \/ HexDecodeOk
    \/ HexTooLong
    \/ HexPad
    \/ HexSum
    \/ HexReturn

SpecHex == InitHex /\ [][NextHex]_vars

-----------------------------------------------------------------------------
(* Properties of parse_hex_amount (SpecHex)                                *)

\* the call has returned
HexDone == hx_pc = "done"

\* the little-endian reading of a byte sequence as a 16-byte number: byte i of
\* the sequence is the digit of 256^i, the digits above the sequence are zero
C15_LittleEndian(bs) ==
    [i \in 1 .. 16 |-> IF i <= Len(bs) THEN bs[i] ELSE 0]

\* the integer a 16-byte number stands for when only its three low bytes are set
C15_SmallValue(a) == a[1] + 256 * a[2] + 65536 * a[3]

\* sum(byte[i] * 256^i) of a sequence of at most three bytes
C15_SmallSum(bs) ==
    (IF Len(bs) >= 1 THEN bs[1] ELSE 0)
    + (IF Len(bs) >= 2 THEN 256 * bs[2] ELSE 0)
    + (IF Len(bs) >= 3 THEN 65536 * bs[3] ELSE 0)

C15_Hex64 == <<"0", "x", "6", "4">>
C15_Hex0a == <<"0", "x", "0", "a", "0", "0", "0", "0", "0", "0", "0", "0", "0", "0", "0", "0", "0", "0", "0", "0", "0", "0", "0", "0", "0", "0", "0", "0", "0", "0", "0", "0", "0", "0">>

\* C15: parse_hex_amount of the hex encoding of at most 16 bytes, with or
\* without the 0x prefix and in either case of the digits, returns Ok of the
\* little-endian value of the bytes (the bytes zero-padded at the high end to
\* 16 bytes); "0x64" gives 100 and "0x0a000000000000000000000000000000" gives 10
C15_LittleEndianValue ==
    HexDone =>
        /\ (hx_src.kind = "bytes" /\ Len(hx_src.bytes) <= 16) =>
              /\ hx_result.kind = "ok"
              /\ hx_result.amount = C15_LittleEndian(hx_src.bytes)
              /\ Len(hx_src.bytes) <= 3 =>
                    /\ C15_SmallValue(hx_result.amount) = C15_SmallSum(hx_src.bytes)
                    /\ \A i \in 4 .. 16 : hx_result.amount[i] = 0
        /\ hex_amount = C15_Hex64 =>
              /\ hx_result.kind = "ok"
              /\ C15_SmallValue(hx_result.amount) = 100
              /\ \A i \in 4 .. 16 : hx_result.amount[i] = 0
        /\ hex_amount = C15_Hex0a =>
              /\ hx_result.kind = "ok"
              /\ C15_SmallValue(hx_result.amount) = 10
              /\ \A i \in 4 .. 16 : hx_result.amount[i] = 0

\* C15 witness: the 16-byte amount of test_parse_hex_amount, written with the
\* prefix, has been parsed
C15_Witness ==
    /\ HexDone
    /\ hx_src.kind = "bytes"
    /\ hx_src.bytes = <<88, 62, 41, 147, 166, 1, 0, 0, 0, 0, 0, 0, 0, 0, 0, 0>>
    /\ hex_amount[2] = "x"
    /\ hx_i = 16
    /\ hx_result.kind = "ok"

\* C16: a hex string that decodes to more than 16 bytes is answered with an
\* error, never with an amount (of a prefix of the bytes or of anything else)
C16_TooLongIsError ==
    /\ (HexDone /\ hx_src.kind = "bytes" /\ Len(hx_src.bytes) > 16) =>
            hx_result.kind = "err"
    /\ Len(bytes) > 16 => hx_result.kind # "ok" /\ hx_pc \in {"check_len", "done"}

\* C16 witness: 17 bytes were decoded and the call returned an error
C16_Witness ==
    /\ HexDone
    /\ hx_src.kind = "bytes"
    /\ Len(hx_src.bytes) = 17
    /\ Len(bytes) = 17
    /\ hx_result.kind = "err"

\* the characters hex::decode accepts
C17_HexChars ==
    {"0", "1", "2", "3", "4", "5", "6", "7", "8", "9",
     "a", "b", "c", "d", "e", "f", "A", "B", "C", "D", "E", "F"}

\* the string after one leading "0x"
C17_Remaining(s) ==
    IF Len(s) >= 2 /\ SubSeq(s, 1, 2) = <<"0", "x">> THEN SubSeq(s, 3, Len(s)) ELSE s

\* the whole remaining string is valid hex of at most 16 bytes
C17_ValidHex(s) ==
    LET rest == C17_Remaining(s)
    IN  /\ Len(rest) % 2 = 0
        /\ Len(rest) <= 2 * 16
        /\ \A i \in 1 .. Len(rest) : rest[i] \in C17_HexChars

\* the steps of parse_hex_amount that can be taken in the current state
C17_EnabledSteps ==
    {a \in {"HexDecodeErr", "HexDecodeOk", "HexTooLong", "HexPad", "HexSum", "HexReturn"} :
        \/ a = "HexDecodeErr" /\ ENABLED HexDecodeErr
        \/ a = "HexDecodeOk" /\ ENABLED HexDecodeOk
        \/ a = "HexTooLong" /\ ENABLED HexTooLong
        \/ a = "HexPad" /\ ENABLED HexPad
        \/ a = "HexSum" /\ ENABLED HexSum
        \/ a = "HexReturn" /\ ENABLED HexReturn}

\* C17: parse_hex_amount is total and deterministic: until it returns exactly
\* one step can be taken (it is never stuck, as it would be on a panic), it
\* returns an amount or an error, and it returns an amount exactly when the
\* whole string after the prefix is valid hex of at most 16 bytes
C17_TotalAndDeterministic ==
    /\ hx_pc \in {"decode", "check_len", "sum", "done"}
    /\ hx_pc # "done" => Cardinality(C17_EnabledSteps) = 1 /\ hx_result.kind = "none"
    /\ HexDone =>
          /\ hx_result.kind \in {"ok", "err"}
          /\ hx_result.kind = "ok" <=> C17_ValidHex(hex_amount)
          /\ hx_result.kind = "ok" =>
                /\ DOMAIN hx_result.amount = 1 .. 16
                /\ \A i \in 1 .. 16 : hx_result.amount[i] \in 0 .. 255

\* C17 witness: a string with a character that is no hex digit was refused, and
\* so was one with an odd number of digits
C17_Witness ==
    /\ HexDone
    /\ hx_result.kind = "err"
    /\ hex_amount \in {<<"0", "x", "g">>, <<"a">>}

-----------------------------------------------------------------------------
(* helper.rs and monitor_handler/default_monitor_handler.rs: the block     *)
(* pipeline                                                                *)

\* SpecBlock: dispatch_block is called on blocks of 0 .. MaxBlockTxns transactions
MaxBlockTxns == 2
\* SpecBlock: extract_full_txn_from_block_view is called on 0 .. MaxBlocks blocks
MaxBlocks == 2
\* SpecBlock: ... that hold at most MaxTxns transactions together
MaxTxns == 3

\* Config::min_transaction_amount, its default
MinTransactionAmount == 1000000000

\* a JSON argument of a decoded script function: a string (an address, an
\* authentication key), or a number, kept as its two 64-bit words so that a
\* number of the u128 range beyond u64 can be told apart
Str == [kind |-> "string"]
Num(hi, lo) == [kind |-> "number", hi |-> hi, lo |-> lo]

\* serde_json::Value::as_u64: Some only for a number that fits in 64 bits
as_u64(v) == IF v.kind = "number" /\ v.hi = 0 THEN Some(v.lo) ELSE None

TransferScripts == "0x00000000000000000000000000000001::TransferScripts"

\* TransactionPayloadView::ScriptFunction
ScriptFunction(module, function, args) ==
    [kind |-> "ScriptFunction", module |-> module, function |-> function, args |-> args]

\* SignedUserTransactionView
SignedUserTransactionView(transaction_hash, decoded_payload) ==
    [transaction_hash |-> transaction_hash,
     raw_txn |-> [decoded_payload |-> decoded_payload]]

\* BlockView; a Hashes body lists transaction_hash only, the model keeps next to
\* each hash the transaction the chain holds for it
BlockView(number, kind, txs) ==
    [header |-> [number |-> number], body |-> [kind |-> kind, txs |-> txs]]

\* BlockTransactionsView::txn_hashes
txn_hashes(body) == [i \in 1 .. Len(body.txs) |-> body.txs[i].transaction_hash]

\* function_view.args[idx].0.as_u64().map(|n| n as u128): the index panics when
\* the arguments are too few
arg_amount(args, idx) ==
    IF idx + 1 > Len(args) THEN Panic ELSE Ok(as_u64(args[idx + 1]))

\* mutant: the module of the script function is not looked at
parse_txn_p2p_amount_any_module(txn_view) ==
    LET txn_payload_view == txn_view.raw_txn.decoded_payload
    IN  IF ~txn_payload_view.some
        THEN Err
        ELSE LET function_view == txn_payload_view.value
             IN  IF function_view.kind = "ScriptFunction"
                 THEN IF function_view.function = "peer_to_peer_v2"
                      THEN arg_amount(function_view.args, 1)
                      ELSE IF function_view.function = "peer_to_peer"
                           THEN arg_amount(function_view.args, 2)
                           ELSE Ok(None)
                 ELSE Ok(None)

parse_txn_p2p_amount(txn_view) ==
    LET txn_payload_view == txn_view.raw_txn.decoded_payload
    IN  IF ~txn_payload_view.some
        THEN Err
        ELSE LET function_view == txn_payload_view.value
             IN  IF function_view.kind = "ScriptFunction"
                 THEN IF /\ function_view.module = TransferScripts
                         /\ function_view.function = "peer_to_peer_v2"
                      THEN arg_amount(function_view.args, 1)
                      ELSE IF /\ function_view.module = TransferScripts
                              /\ function_view.function = "peer_to_peer"
                           THEN arg_amount(function_view.args, 2)
                           ELSE Ok(None)
                 ELSE Ok(None)

\* mutant: the hashes of the Full bodies are fetched as well
RECURSIVE collect_hashes_all_blocks(_)
collect_hashes_all_blocks(blocks) ==
    IF blocks = <<>>
    THEN <<>>
    ELSE txn_hashes(Head(blocks).body) \o collect_hashes_all_blocks(Tail(blocks))

\* the first loop of extract_full_txn_from_block_view: the hashes of the
\* Hashes bodies, in the order of the blocks
RECURSIVE collect_hashes(_)
collect_hashes(blocks) ==
    IF blocks = <<>>
    THEN <<>>
    ELSE (IF Head(blocks).body.kind = "Hashes" THEN txn_hashes(Head(blocks).body) ELSE <<>>)
         \o collect_hashes(Tail(blocks))

\* the first loop of extract_full_txn_from_block_view: the transactions of the
\* Full bodies, in the order of the blocks
RECURSIVE collect_full(_)
collect_full(blocks) ==
    IF blocks = <<>>
    THEN <<>>
    ELSE (IF Head(blocks).body.kind = "Full" THEN Head(blocks).body.txs ELSE <<>>)
         \o collect_full(Tail(blocks))

\* every transaction of the blocks, in the order of the blocks
RECURSIVE block_txs(_)
block_txs(blocks) ==
    IF blocks = <<>> THEN <<>> ELSE Head(blocks).body.txs \o block_txs(Tail(blocks))

\* the transaction the chain holds for a hash
chain_txn(txn_hash) ==
    LET all == block_txs(block_views)
    IN  all[CHOOSE i \in 1 .. Len(all) : all[i].transaction_hash = txn_hash]

\* what one call of chain_get_transaction can come to
FetchOutcomes == {"found", "found_without_user_transaction", "not_found", "rpc_error"}

\* rpc_client.chain_get_transaction(txn_hash, Some(GetTransactionOption { decode: true }))
chain_get_transaction(txn_hash, outcome) ==
    CASE outcome = "found" ->
             Ok(Some([user_transaction |-> Some(chain_txn(txn_hash))]))
      [] outcome = "found_without_user_transaction" ->
             Ok(Some([user_transaction |-> None]))
      [] outcome = "not_found" -> Ok(None)
      [] outcome = "rpc_error" -> Err

\* .ok().flatten() on a Result<Option<T>>
ok_flatten(r) == IF r.kind = "Ok" THEN r.value ELSE None

-----------------------------------------------------------------------------
(* SpecBlock: the blocks the pipeline is called with                       *)

\* decoded payloads: none; transfers at and just above the threshold, by both
\* entry points; transfers with too few arguments, with an amount that is no
\* integer, with an amount of 2^64; other script functions; a script
PayloadSamples ==
    {None,
     Some(ScriptFunction(TransferScripts, "peer_to_peer_v2",
                         <<Str, Num(0, MinTransactionAmount)>>)),
     Some(ScriptFunction(TransferScripts, "peer_to_peer_v2",
                         <<Str, Num(0, MinTransactionAmount + 1)>>)),
     Some(ScriptFunction(TransferScripts, "peer_to_peer",
                         <<Str, Str, Num(0, MinTransactionAmount + 1)>>)),
     Some(ScriptFunction(TransferScripts, "peer_to_peer_v2", <<Str>>)),
     Some(ScriptFunction(TransferScripts, "peer_to_peer",
                         <<Str, Num(0, MinTransactionAmount + 1)>>)),
     Some(ScriptFunction(TransferScripts, "peer_to_peer_v2", <<Str, Str>>)),
     Some(ScriptFunction(TransferScripts, "peer_to_peer_v2", <<Str, Num(1, 0)>>)),
     Some(ScriptFunction(TransferScripts, "batch_peer_to_peer",
                         <<Str, Num(0, MinTransactionAmount + 1)>>)),
     Some(ScriptFunction("0x00000000000000000000000000000001::Account", "peer_to_peer_v2",
                         <<Str, Num(0, MinTransactionAmount + 1)>>)),
     Some([kind |-> "Script"])}

BodyKinds == {"Hashes", "Full"}

\* dispatch_block(block_view): one block, its transactions numbered in order
DispatchCalls ==
    {[caller |-> "dispatch_block",
      block_views |->
          <<BlockView(BaseHeight, kind,
                      [i \in 1 .. Len(ps) |-> SignedUserTransactionView(i, ps[i])])>>] :
        kind \in BodyKinds, ps \in SeqsUpTo(PayloadSamples, MaxBlockTxns)}

\* the number of transactions in the first j of a list of (kind, size) pairs
RECURSIVE SizeUpTo(_, _)
SizeUpTo(shapes, j) == IF j = 0 THEN 0 ELSE shapes[j][2] + SizeUpTo(shapes, j - 1)

\* extract_full_txn_from_block_view(rpc_client, block_views): a list of blocks,
\* the transactions numbered in the order of the list
ExtractCalls ==
    {[caller |-> "extract_full_txn_from_block_view",
      block_views |->
          [j \in 1 .. Len(shapes) |->
              BlockView(BaseHeight + j, shapes[j][1],
                        [i \in 1 .. shapes[j][2] |->
                            SignedUserTransactionView(
                                SizeUpTo(shapes, j - 1) + i,
                                Some(ScriptFunction(TransferScripts, "peer_to_peer_v2",
                                        <<Str, Num(0, MinTransactionAmount + 1)>>)))])]] :
        shapes \in {sh \in SeqsUpTo(BodyKinds \X (0 .. MaxTxns), MaxBlocks) :
                        SizeUpTo(sh, Len(sh)) <= MaxTxns}}

InitBlock ==
    /\ \E call \in DispatchCalls \cup ExtractCalls :
          /\ bk_caller = call.caller
          /\ block_views = call.block_views
          /\ bk_pc = IF call.caller = "dispatch_block" THEN "entry" ELSE "extract"
    /\ txn_hashes_to_fetch = <<>>
    /\ full_transactions = <<>>
    /\ all_transactions = <<>>
    /\ fetch_i = 0
    /\ fetch_log = <<>>
    /\ full_txns = <<>>
    /\ txn_i = 0
    /\ sends = <<>>
    /\ bk_result = [kind |-> "none"]
    /\ WdIdle
    /\ TgIdle
    /\ HxIdle
    /\ SbIdle
    /\ DgIdle
    /\ MnIdle

\* dispatch_block: if block_view.body.txn_hashes().is_empty() { return Ok(()) }
DispatchEmptyBlock ==
    /\ bk_pc = "entry"
    /\ txn_hashes(block_views[1].body) = <<>>
    /\ bk_result' = Ok(Unit)
    /\ bk_pc' = "done"
    /\ UNCHANGED <<bk_caller, block_views, txn_hashes_to_fetch, full_transactions,
                   all_transactions, fetch_i, fetch_log, full_txns, txn_i, sends,
                   notBk>>

\* dispatch_block: helper::extract_full_txn_from_block_view(.., vec![block_view.clone()])
DispatchExtract ==
    /\ bk_pc = "entry"
    /\ txn_hashes(block_views[1].body) # <<>>
    /\ bk_pc' = "extract"
    /\ UNCHANGED <<bk_caller, block_views, txn_hashes_to_fetch, full_transactions,
                   all_transactions, fetch_i, fetch_log, full_txns, txn_i, sends,
                   bk_result, notBk>>

\* extract_full_txn_from_block_view: if block_views.is_empty() { return Ok(Vec::new()) }
ExtractEmpty ==
    /\ bk_pc = "extract"
    /\ block_views = <<>>
    /\ IF bk_caller = "dispatch_block"
       THEN /\ full_txns' = <<>>
            /\ bk_pc' = "loop"
            /\ UNCHANGED bk_result
       ELSE /\ bk_result' = Ok(<<>>)
            /\ bk_pc' = "done"
            /\ UNCHANGED full_txns
    /\ UNCHANGED <<bk_caller, block_views, txn_hashes_to_fetch, full_transactions,
                   all_transactions, fetch_i, fetch_log, txn_i, sends,
                   notBk>>

\* extract_full_txn_from_block_view: for block in &block_views { match &block.body .. }
ExtractCollect ==
    /\ bk_pc = "extract"
    /\ block_views # <<>>
    /\ txn_hashes_to_fetch' = collect_hashes(block_views)
    /\ full_transactions' = collect_full(block_views)
    /\ all_transactions' = <<>>
    /\ fetch_i' = 0
    /\ bk_pc' = "fetch"
    /\ UNCHANGED <<bk_caller, block_views, fetch_log, full_txns, txn_i, sends, bk_result,
                   notBk>>

\* extract_full_txn_from_block_view: one iteration of `for txn_hash in txn_hashes_to_fetch`
Fetch ==
    /\ bk_pc = "fetch"
    /\ fetch_i < Len(txn_hashes_to_fetch)
    /\ \E outcome \in FetchOutcomes :
          LET txn_hash == txn_hashes_to_fetch[fetch_i + 1]
              txn_result == ok_flatten(chain_get_transaction(txn_hash, outcome))
          IN  /\ all_transactions' =
                    IF txn_result.some /\ txn_result.value.user_transaction.some
                    THEN Append(all_transactions, txn_result.value.user_transaction.value)
                    ELSE all_transactions
              /\ fetch_log' = Append(fetch_log, [txn_hash |-> txn_hash, outcome |-> outcome])
    /\ fetch_i' = fetch_i + 1
    /\ UNCHANGED <<bk_caller, block_views, bk_pc, txn_hashes_to_fetch, full_transactions,
                   full_txns, txn_i, sends, bk_result, notBk>>

\* extract_full_txn_from_block_view: all_transactions.extend(full_transactions);
\* Ok(all_transactions); in dispatch_block the value is bound to full_txns
ExtractReturn ==
    /\ bk_pc = "fetch"
    /\ fetch_i = Len(txn_hashes_to_fetch)
    /\ all_transactions' = all_transactions \o full_transactions
    /\ IF bk_caller = "dispatch_block"
       THEN /\ full_txns' = all_transactions \o full_transactions
            /\ bk_pc' = "loop"
            /\ UNCHANGED bk_result
       ELSE /\ bk_result' = Ok(all_transactions \o full_transactions)
            /\ bk_pc' = "done"
            /\ UNCHANGED full_txns
    /\ UNCHANGED <<bk_caller, block_views, txn_hashes_to_fetch, full_transactions,
                   fetch_i, fetch_log, txn_i, sends, notBk>>

\* dispatch_block: helper::parse_txn_p2p_amount(txn)? on an Err
LoopParseErr ==
    /\ bk_pc = "loop"
    /\ txn_i < Len(full_txns)
    /\ parse_txn_p2p_amount(full_txns[txn_i + 1]).kind = "Err"
    /\ bk_result' = Err
    /\ bk_pc' = "done"
    /\ UNCHANGED <<bk_caller, block_views, txn_hashes_to_fetch, full_transactions,
                   all_transactions, fetch_i, fetch_log, full_txns, txn_i, sends,
                   notBk>>

\* dispatch_block: helper::parse_txn_p2p_amount(txn) panics
LoopParsePanic ==
    /\ bk_pc = "loop"
    /\ txn_i < Len(full_txns)
    /\ parse_txn_p2p_amount(full_txns[txn_i + 1]).kind = "Panic"
    /\ bk_result' = Panic
    /\ bk_pc' = "done"
    /\ UNCHANGED <<bk_caller, block_views, txn_hashes_to_fetch, full_transactions,
                   all_transactions, fetch_i, fetch_log, full_txns, txn_i, sends,
                   notBk>>

\* if let Some(amount) = ..? { if amount > self.config.min_transaction_amount { .. } }
exceeds_min_transaction_amount(parsed) ==
    /\ parsed.kind = "Ok"
    /\ parsed.value.some
    /\ parsed.value.value > MinTransactionAmount

\* dispatch_block: the transaction has no amount, or one that is not above the
\* threshold; the loop goes on
LoopSkip ==
    /\ bk_pc = "loop"
    /\ txn_i < Len(full_txns)
    /\ parse_txn_p2p_amount(full_txns[txn_i + 1]).kind = "Ok"
    /\ ~exceeds_min_transaction_amount(parse_txn_p2p_amount(full_txns[txn_i + 1]))
    /\ txn_i' = txn_i + 1
    /\ UNCHANGED <<bk_caller, block_views, bk_pc, txn_hashes_to_fetch, full_transactions,
                   all_transactions, fetch_i, fetch_log, full_txns, sends, bk_result,
                   notBk>>

\* dispatch_block: the amount is above the threshold, the message is formatted
LoopAlert ==
    /\ bk_pc = "loop"
    /\ txn_i < Len(full_txns)
    /\ exceeds_min_transaction_amount(parse_txn_p2p_amount(full_txns[txn_i + 1]))
    /\ bk_pc' = "send"
    /\ UNCHANGED <<bk_caller, block_views, txn_hashes_to_fetch, full_transactions,
                   all_transactions, fetch_i, fetch_log, full_txns, txn_i, sends,
                   bk_result, notBk>>

\* nano units in one STC: `amount as f64 / 1e9`
NanoPerStc == 1000000000

\* format!("{:.9}", amount as f64 / 1e9): the decimal number with nine digits
\* after the point, kept as its whole part and its nine fraction digits.  A
\* value below 2^52 is an exact f64 and its quotient is nearer than 0.5e-9 to
\* value / 10^9, so the nine digits are those of the exact quotient.
format_amount(value) ==
    [whole |-> value \div NanoPerStc, frac |-> value % NanoPerStc]

\* the message of dispatch_block: the height, the hash and the amount (the
\* amount as parsed, and as the message shows it)
AlertMessage(result) ==
    [height   |-> block_views[1].header.number,
     txn_hash |-> full_txns[txn_i + 1].transaction_hash,
     amount   |-> parse_txn_p2p_amount(full_txns[txn_i + 1]).value.value,
     display  |-> format_amount(parse_txn_p2p_amount(full_txns[txn_i + 1]).value.value),
     result   |-> result]

\* dispatch_block: self.tg_bot.send_message(msg.as_str()).await? on Ok
SendAlertOk ==
    /\ bk_pc = "send"
    /\ sends' = Append(sends, AlertMessage("ok"))
    /\ txn_i' = txn_i + 1
    /\ bk_pc' = "loop"
    /\ UNCHANGED <<bk_caller, block_views, txn_hashes_to_fetch, full_transactions,
                   all_transactions, fetch_i, fetch_log, full_txns, bk_result,
                   notBk>>

\* dispatch_block: self.tg_bot.send_message(msg.as_str()).await? on an Err
SendAlertErr ==
    /\ bk_pc = "send"
    /\ sends' = Append(sends, AlertMessage("err"))
    /\ bk_result' = Err
    /\ bk_pc' = "done"
    /\ UNCHANGED <<bk_caller, block_views, txn_hashes_to_fetch, full_transactions,
                   all_transactions, fetch_i, fetch_log, full_txns, txn_i,
                   notBk>>

\* dispatch_block: the loop is over, Ok(())
DispatchReturn ==
    /\ bk_pc = "loop"
    /\ txn_i = Len(full_txns)
    /\ bk_result' = Ok(Unit)
    /\ bk_pc' = "done"
    /\ UNCHANGED <<bk_caller, block_views, txn_hashes_to_fetch, full_transactions,
                   all_transactions, fetch_i, fetch_log, full_txns, txn_i, sends,
                   notBk>>

NextBlock ==
    \/ DispatchEmptyBlock
    \/ DispatchExtract
    \/ ExtractEmpty
    \/ ExtractCollect
    \/ Fetch
    \/ ExtractReturn
    \/ LoopParseErr
    \/ LoopParsePanic
    \/ LoopSkip
    \/ LoopAlert
    \/ SendAlertOk
    \/ SendAlertErr
    \/ DispatchReturn

SpecBlock == InitBlock /\ [][NextBlock]_vars

-----------------------------------------------------------------------------
(* Properties of the block pipeline (SpecBlock)                            *)

\* a send of dispatch_block has failed
SendFailed == \E j \in 1 .. Len(sends) : sends[j].result = "err"

\* a malformed transaction: no decoded payload, or a transfer with fewer
\* arguments than the position of the amount, or with an amount argument that
\* is no integer
C18_Malformed(txn) ==
    LET p == txn.raw_txn.decoded_payload
    IN  \/ ~p.some
        \/ /\ p.some
           /\ p.value.kind = "ScriptFunction"
           /\ p.value.module = "0x00000000000000000000000000000001::TransferScripts"
           /\ \/ /\ p.value.function = "peer_to_peer_v2"
                 /\ (Len(p.value.args) < 2 \/ p.value.args[2].kind # "number")
              \/ /\ p.value.function = "peer_to_peer"
                 /\ (Len(p.value.args) < 3 \/ p.value.args[3].kind # "number")

\* C18 (as the specification states it): the amount decoder answers a malformed
\* transaction with "no amount", and dispatch_block, unless a send fails,
\* evaluates every transaction of the batch and returns Ok
C18_MalformedYieldsNoAmount ==
    /\ \A k \in 1 .. Len(full_txns) :
          C18_Malformed(full_txns[k]) => parse_txn_p2p_amount(full_txns[k]) = Ok(None)
    /\ (bk_caller = "dispatch_block" /\ bk_pc = "done" /\ ~SendFailed) =>
          /\ bk_result = Ok(Unit)
          /\ txn_i = Len(full_txns)

\* the payload is decoded and is no recognized transfer
C19_Unrecognized(txn) ==
    LET p == txn.raw_txn.decoded_payload
    IN  /\ p.some
        /\ \/ p.value.kind # "ScriptFunction"
           \/ /\ p.value.kind = "ScriptFunction"
              /\ ~ /\ p.value.module = "0x00000000000000000000000000000001::TransferScripts"
                   /\ p.value.function \in {"peer_to_peer", "peer_to_peer_v2"}

\* C19: for a transaction whose decoded payload is no recognized transfer,
\* parse_txn_p2p_amount returns Ok(None); dispatch_block does not end at that
\* transaction with an error and sends no alert for it
C19_UnrecognizedIsNoAmount ==
    \A k \in 1 .. Len(full_txns) :
        C19_Unrecognized(full_txns[k]) =>
            /\ parse_txn_p2p_amount(full_txns[k]) = Ok(None)
            /\ \A j \in 1 .. Len(sends) : sends[j].txn_hash # full_txns[k].transaction_hash
            /\ (bk_pc = "done" /\ bk_result.kind # "Ok") => txn_i + 1 # k
            /\ bk_pc = "send" => txn_i + 1 # k

\* C19 witness: dispatch_block went past two transactions that are no
\* recognized transfers (another function, a script) and returned Ok
C19_Witness ==
    /\ bk_caller = "dispatch_block"
    /\ bk_pc = "done"
    /\ bk_result = Ok(Unit)
    /\ Len(full_txns) = 2
    /\ full_txns[1].raw_txn.decoded_payload.value.kind = "ScriptFunction"
    /\ full_txns[1].raw_txn.decoded_payload.value.function = "batch_peer_to_peer"
    /\ full_txns[2].raw_txn.decoded_payload.value.kind = "Script"
    /\ sends = <<>>

\* C20 (as the specification states it): extract_full_txn_from_block_view
\* returns the transactions in input order; the transactions of the input are
\* numbered in that order, so the hashes of the output ascend
C20_InputOrder ==
    (bk_pc = "done" /\ bk_caller = "extract_full_txn_from_block_view") =>
        /\ bk_result.kind = "Ok"
        /\ \A i, j \in 1 .. Len(bk_result.value) :
              i < j => bk_result.value[i].transaction_hash < bk_result.value[j].transaction_hash

\* the identifiers of the hash-only blocks, in input order
RECURSIVE C21_HashOnlyIds(_)
C21_HashOnlyIds(blocks) ==
    IF blocks = <<>>
    THEN <<>>
    ELSE LET b == blocks[1]
         IN  (IF b.body.kind = "Hashes"
              THEN [i \in 1 .. Len(b.body.txs) |-> b.body.txs[i].transaction_hash]
              ELSE <<>>)
             \o C21_HashOnlyIds(SubSeq(blocks, 2, Len(blocks)))

\* extract_full_txn_from_block_view has returned (to dispatch_block or to the
\* caller of the model)
C21_Extracted ==
    \/ bk_caller = "extract_full_txn_from_block_view" /\ bk_pc = "done"
    \/ /\ bk_caller = "dispatch_block"
       /\ bk_pc \in {"loop", "send", "done"}
       /\ block_views[1].body.txs # <<>>

\* what extract_full_txn_from_block_view returned
C21_Returned ==
    IF bk_caller = "dispatch_block" THEN Ok(full_txns) ELSE bk_result

\* the transaction is expected in the output: it came in a full block, or the
\* fetch of its hash found it
C21_Expected(txn) ==
    \/ \E b \in 1 .. Len(block_views) :
          /\ block_views[b].body.kind = "Full"
          /\ \E i \in 1 .. Len(block_views[b].body.txs) : block_views[b].body.txs[i] = txn
    \/ \E j \in 1 .. Len(fetch_log) :
          /\ fetch_log[j].txn_hash = txn.transaction_hash
          /\ fetch_log[j].outcome = "found"

\* C21: in extract_full_txn_from_block_view one fetch is issued per identifier
\* of a hash-only block and none for a full block; a fetch that fails or finds
\* nothing does not fail the call: it returns Ok with exactly the transactions
\* of the full blocks and the transactions that were found, each once
C21_FailedFetchSkipped ==
    /\ bk_pc = "fetch" =>
          /\ Len(fetch_log) = fetch_i
          /\ fetch_i <= Len(C21_HashOnlyIds(block_views))
          /\ \A j \in 1 .. fetch_i :
                fetch_log[j].txn_hash = C21_HashOnlyIds(block_views)[j]
          /\ bk_result.kind = "none"
    /\ C21_Extracted =>
          /\ [j \in 1 .. Len(fetch_log) |-> fetch_log[j].txn_hash]
                = C21_HashOnlyIds(block_views)
          /\ C21_Returned.kind = "Ok"
          /\ LET out == C21_Returned.value
                 all == block_txs(block_views)
             IN  /\ \A i \in 1 .. Len(out) : C21_Expected(out[i])
                 /\ \A i \in 1 .. Len(all) :
                       C21_Expected(all[i]) =>
                           Cardinality({k \in 1 .. Len(out) : out[k] = all[i]}) = 1
                 /\ Len(out) = Cardinality({i \in 1 .. Len(all) : C21_Expected(all[i])})

\* C21 witness: of two identifiers one fetch failed and one found its record,
\* and the call returned the found transaction and the one of a full block
C21_Witness ==
    /\ bk_caller = "extract_full_txn_from_block_view"
    /\ bk_pc = "done"
    /\ Len(fetch_log) = 2
    /\ {fetch_log[1].outcome, fetch_log[2].outcome} = {"rpc_error", "found"}
    /\ bk_result.kind = "Ok"
    /\ Len(bk_result.value) = 2
    /\ Len(full_transactions) = 1

\* the amount argument of a recognized transfer, none for anything else
C22_TransferAmount(txn) ==
    LET p == txn.raw_txn.decoded_payload
    IN  IF /\ p.some
           /\ p.value.kind = "ScriptFunction"
           /\ p.value.module = "0x00000000000000000000000000000001::TransferScripts"
        THEN IF /\ p.value.function = "peer_to_peer_v2"
                /\ Len(p.value.args) >= 2
                /\ p.value.args[2].kind = "number"
             THEN Some(p.value.args[2])
             ELSE IF /\ p.value.function = "peer_to_peer"
                     /\ Len(p.value.args) >= 3
                     /\ p.value.args[3].kind = "number"
                  THEN Some(p.value.args[3])
                  ELSE None
        ELSE None

\* the block of dispatch_block holds exactly one transaction, a recognized
\* transfer of an amount above the threshold, and the pipeline has the
\* transaction in full (from a full body, or from a fetch that found it)
C22_Scenario ==
    /\ bk_caller = "dispatch_block"
    /\ bk_pc = "done"
    /\ Len(block_views[1].body.txs) = 1
    /\ LET a == C22_TransferAmount(block_views[1].body.txs[1])
       IN  /\ a.some
           /\ (a.value.hi > 0 \/ a.value.lo > 1000000000)
    /\ \/ block_views[1].body.kind = "Full"
       \/ Len(fetch_log) = 1 /\ fetch_log[1].outcome = "found"

\* C22 (as the specification states it): in the scenario dispatch_block makes
\* exactly one send, and the message holds the height of the block, the hash of
\* the transaction and the amount
C22_OneTransferOneSend ==
    C22_Scenario =>
        /\ Len(sends) = 1
        /\ sends[1].height = block_views[1].header.number
        /\ sends[1].txn_hash = block_views[1].body.txs[1].transaction_hash
        /\ [kind |-> "number", hi |-> 0,
            lo |-> sends[1].display.whole * 1000000000 + sends[1].display.frac]
              = C22_TransferAmount(block_views[1].body.txs[1]).value

-----------------------------------------------------------------------------
(* pubsub_client.rs: the subscription loop                                 *)

\* SpecSub: the stream yields at most MaxEvents items and errors
MaxEvents == 3
\* SpecSub: at most MaxLines lines arrive on standard input
MaxLines == 2

\* what a stream can yield before it ends: Ok(Some(evt)) and Err(e), numbered
\* in the order of delivery
StreamInputs ==
    {[i \in 1 .. Len(ks) |-> [kind |-> ks[i], id |-> i]] :
        ks \in SeqsUpTo({"item", "err"}, MaxEvents)}

\* the lines of standard input: the quit line and another line
LineInputs == SeqsUpTo({"q", "x"}, MaxLines)

\* mutant: every line quits
is_quit_any_line(q) == TRUE

\* q.as_str() == "q"
is_quit(q) == q = "q"

\* subscribe_new_blocks(fun) or subscribe_new_events(fun) is entered
InitSub ==
    /\ sb_caller \in {"subscribe_new_blocks", "subscribe_new_events"}
    /\ sb_pc = "subscribe"
    /\ stream \in StreamInputs
    /\ stream_ends \in BOOLEAN
    /\ lines \in LineInputs
    /\ pulled = <<>>
    /\ handled = <<>>
    /\ returned = 0
    /\ subscribed = 0
    /\ sb_input = [stream |-> stream, lines |-> lines]
    /\ sb_result = [kind |-> "none"]
    /\ WdIdle
    /\ TgIdle
    /\ HxIdle
    /\ BkIdle
    /\ DgIdle
    /\ MnIdle

\* let subscription = self.rpc_client.subscribe_new_blocks()?  -- Err
\* (subscribe_events(event_filter, true)? in subscribe_new_events)
SubscribeErr ==
    /\ sb_pc = "subscribe"
    /\ sb_result' = Err
    /\ sb_pc' = "exited"
    /\ UNCHANGED <<sb_caller, stream, stream_ends, lines, pulled, handled, returned,
                   subscribed, sb_input, notSb>>

\* let subscription = self.rpc_client.subscribe_new_blocks()?  -- Ok; the loop
\* of blocking_display_notification is entered
SubscribeOk ==
    /\ sb_pc = "subscribe"
    /\ subscribed' = subscribed + 1
    /\ sb_pc' = "select"
    /\ UNCHANGED <<sb_caller, stream, stream_ends, lines, pulled, handled, returned,
                   sb_input, sb_result, notSb>>

\* select!: maybe_quit = lines.next_line() is Ok(Some(q)) with q == "q": break
SubLineQuit ==
    /\ sb_pc = "select"
    /\ lines # <<>>
    /\ is_quit(Head(lines))
    /\ lines' = Tail(lines)
    /\ sb_pc' = "return"
    /\ UNCHANGED <<sb_caller, stream, stream_ends, pulled, handled, returned,
                   subscribed, sb_input, sb_result, notSb>>

\* mutant: the branch of standard input wins the select while try_next holds
\* an item, and the item is lost with the dropped future
SubLineOther_drops_item ==
    /\ sb_pc = "select"
    /\ lines # <<>>
    /\ ~is_quit(Head(lines))
    /\ lines' = Tail(lines)
    /\ stream' = IF stream # <<>> THEN Tail(stream) ELSE stream
    /\ UNCHANGED <<sb_caller, sb_pc, stream_ends, pulled, handled, returned,
                   subscribed, sb_input, sb_result, notSb>>

\* select!: maybe_quit = lines.next_line() is Ok(Some(q)) with another line:
\* the loop goes on (as it does, with no change at all, on the end of standard
\* input and on a read error)
SubLineOther ==
    /\ sb_pc = "select"
    /\ lines # <<>>
    /\ ~is_quit(Head(lines))
    /\ lines' = Tail(lines)
    /\ UNCHANGED <<sb_caller, sb_pc, stream, stream_ends, pulled, handled, returned,
                   subscribed, sb_input, sb_result, notSb>>

\* mutant: the handler is started and the loop goes on without waiting for it
SubPullItem_no_wait ==
    /\ sb_pc = "select"
    /\ stream # <<>>
    /\ Head(stream).kind = "item"
    /\ pulled' = Append(pulled, Head(stream))
    /\ handled' = Append(handled, Head(stream).id)
    /\ stream' = Tail(stream)
    /\ UNCHANGED <<sb_caller, sb_pc, stream_ends, lines, returned, subscribed, sb_input,
                   sb_result, notSb>>

\* select!: try_event = event_stream.try_next() is Ok(Some(evt)):
\* display(&evt) is called, and it calls the handler fun(evt)
SubPullItem ==
    /\ sb_pc = "select"
    /\ stream # <<>>
    /\ Head(stream).kind = "item"
    /\ pulled' = Append(pulled, Head(stream))
    /\ handled' = Append(handled, Head(stream).id)
    /\ stream' = Tail(stream)
    /\ sb_pc' = "handler"
    /\ UNCHANGED <<sb_caller, stream_ends, lines, returned, subscribed, sb_input,
                   sb_result, notSb>>

\* the handler returns, display returns the text, println! prints it
SubHandlerReturn ==
    /\ sb_pc = "handler"
    /\ returned' = returned + 1
    /\ sb_pc' = "select"
    /\ UNCHANGED <<sb_caller, stream, stream_ends, lines, pulled, handled, subscribed,
                   sb_input, sb_result, notSb>>

\* select!: try_event is Err(e): eprintln!, and the loop goes on
SubPullErr ==
    /\ sb_pc = "select"
    /\ stream # <<>>
    /\ Head(stream).kind = "err"
    /\ pulled' = Append(pulled, Head(stream))
    /\ stream' = Tail(stream)
    /\ UNCHANGED <<sb_caller, sb_pc, stream_ends, lines, handled, returned, subscribed,
                   sb_input, sb_result, notSb>>

\* select!: try_event is Ok(None): break
SubPullEnd ==
    /\ sb_pc = "select"
    /\ stream = <<>>
    /\ stream_ends
    /\ sb_pc' = "return"
    /\ UNCHANGED <<sb_caller, stream, stream_ends, lines, pulled, handled, returned,
                   subscribed, sb_input, sb_result, notSb>>

\* blocking_display_notification returns; info!(".. | Exited"); Ok(())
SubReturn ==
    /\ sb_pc = "return"
    /\ sb_result' = Ok(Unit)
    /\ sb_pc' = "exited"
    /\ UNCHANGED <<sb_caller, stream, stream_ends, lines, pulled, handled, returned,
                   subscribed, sb_input, notSb>>

NextSub ==
    \/ SubscribeErr
    \/ SubscribeOk
    \/ SubLineQuit
    \/ SubLineOther
    \/ SubPullItem
    \/ SubHandlerReturn
    \/ SubPullErr
    \/ SubPullEnd
    \/ SubReturn

SpecSub == InitSub /\ [][NextSub]_vars

\* select! polls its branches in random order, so a branch that stays ready
\* is taken in the end; the code after the loop runs to its return
SpecSubLive == SpecSub /\ WF_vars(SubPullEnd) /\ WF_vars(SubReturn)

-----------------------------------------------------------------------------
(* Properties of the subscription loop (SpecSub, SpecSubLive)              *)

\* the handler calls that have not returned
InFlight == Len(handled) - returned

\* C23: at most one notification is in flight: while the handler runs for an
\* item nothing is pulled from the stream and no other handler call is made
C23_AtMostOneInFlight ==
    /\ InFlight \in {0, 1}
    /\ InFlight = 1 <=> sb_pc = "handler"
    /\ InFlight = 1 =>
          /\ ~ENABLED SubPullItem
          /\ ~ENABLED SubPullErr
          /\ ~ENABLED SubPullEnd
          /\ pulled[Len(pulled)].id = handled[Len(handled)]

\* C23 witness: the handler runs for the second item, the call for the first
\* has returned, and the stream holds a third item
C23_Witness ==
    /\ sb_pc = "handler"
    /\ handled = <<1, 2>>
    /\ returned = 1
    /\ stream # <<>>
    /\ Head(stream).kind = "item"

\* the items among what the stream has yielded, in order
RECURSIVE C24_ItemIds(_)
C24_ItemIds(evts) ==
    IF evts = <<>>
    THEN <<>>
    ELSE (IF evts[1].kind = "item" THEN <<evts[1].id>> ELSE <<>>)
         \o C24_ItemIds(SubSeq(evts, 2, Len(evts)))

\* C24: what has been pulled and what the stream still holds are together
\* what the stream delivers, in its order (nothing is lost or repeated, however
\* the select between the stream and standard input falls), and the handler
\* has been called once with every item that was pulled, in that order
C24_EveryItemHandledOnce ==
    /\ pulled \o stream = sb_input.stream
    /\ handled = C24_ItemIds(pulled)

\* C24 witness: a line other than the quit line was read while the stream had
\* items to deliver, and all three items reached the handler
C24_Witness ==
    /\ sb_input.lines = <<"x">>
    /\ lines = <<>>
    /\ handled = <<1, 2, 3>>
    /\ returned = 3

\* C25: the loop leaves its select only on the end of the stream or on the
\* line "q"; after the exit no step is taken (no handler call, no second
\* subscription); and once the stream has ended the call returns
C25_ExitOnlyOnEndOrQuit ==
    /\ [][/\ sb_pc # "exited"
          /\ sb_pc' = "return" =>
                /\ sb_pc = "select"
                /\ \/ stream = <<>> /\ stream_ends
                   \/ lines # <<>> /\ Head(lines) = "q"
          /\ sb_pc' = "exited" =>
                /\ sb_pc \in {"return", "subscribe"}
                /\ sb_result'.kind = (IF sb_pc = "return" THEN "Ok" ELSE "Err")
          /\ sb_pc \in {"return", "exited"} => handled' = handled /\ pulled' = pulled
          /\ subscribed' <= 1]_vars
    /\ (sb_pc = "select" /\ stream = <<>> /\ stream_ends) ~> (sb_pc = "exited")

\* C25 witness: a line other than "q" was read, the loop went on, and the call
\* returned after the stream had ended
C25_Witness ==
    /\ sb_pc = "exited"
    /\ sb_result = Ok(Unit)
    /\ sb_input.lines = <<"x">>
    /\ lines = <<>>
    /\ stream = <<>>
    /\ stream_ends
    /\ Len(pulled) = 3

\* C26 (as the specification states it): an error item of the stream is fatal
\* to the loop: nothing is pulled after it, the loop stops, and the call
\* returns the failure
C26_ErrorItemIsFatal ==
    \A k \in 1 .. Len(pulled) :
        pulled[k].kind = "err" =>
            /\ k = Len(pulled)
            /\ sb_pc \in {"return", "exited"}
            /\ sb_pc = "exited" => sb_result = Err

\* =====================================================================
\* The daily digest (daily_notification.rs): process_transfers
\* =====================================================================

\* the number of hits a list handed to process_transfers holds at most
MaxHits == 3

\* the loop of parse_hex_amount from its i-th round on: amount after every
\* round is a u128, held as 16 bytes, least significant first
RECURSIVE sum_from(_, _, _)
sum_from(acc, padded, i) ==
    IF i = U128Bytes
    THEN acc
    ELSE LET next == sum_step(acc, padded, i)
         IN  IF Len(next) = U128Bytes THEN sum_from(next, padded, i + 1) ELSE next

\* parse_hex_amount(hex_amount) as a function: Err for a text hex::decode
\* rejects or of more than 16 bytes, else Ok of the amount the loop ends with
parse_hex_amount(s) ==
    LET hex_str == strip_0x(s)
    IN  IF ~hex_decode_ok(hex_str)
        THEN Err
        ELSE LET bs == hex_decode(hex_str)
             IN  IF exceeds_u128(bs)
                 THEN Err
                 ELSE Ok(sum_from(ZeroU128, pad_bytes(bs), 0))

\* a >= b on u128 values: decided at the most significant byte that differs
RECURSIVE ge_from(_, _, _)
ge_from(a, b, i) ==
    IF i = 0
    THEN TRUE
    ELSE IF a[i] # b[i] THEN a[i] > b[i] ELSE ge_from(a, b, i - 1)

u128_ge(a, b) == ge_from(a, b, U128Bytes)

\* config.min_transaction_amount (a u64, default 1_000_000_000) as the u128
\* handed to query_daily_transfers and on to process_transfers
min_amount ==
    [i \in 1 .. U128Bytes |->
        IF i <= 4 THEN (MinTransactionAmount \div Pow2(8 * (i - 1))) % 256 ELSE 0]

\* the amounts of the hits: ten nanoSTC (the amount test_process_transfers
\* leaves out); min_amount itself; min_amount plus one; the largest u128; and
\* a text hex::decode rejects. process_transfers is gone through with the
\* amounts around min_amount, the digest with amounts whose sum leaves u128
AmountBelow == <<"0", "x">> \o hex_encode(<<10>>, LowerDigits)
AmountEqual == <<"0", "x">> \o hex_encode(<<0, 202, 154, 59>>, LowerDigits)
AmountAbove == <<"0", "x">> \o hex_encode(<<1, 202, 154, 59>>, LowerDigits)
AmountMax == <<"0", "x">> \o hex_encode([i \in 1 .. U128Bytes |-> 255], LowerDigits)
AmountBad == <<"0", "x", "z", "z">>
TransferAmounts == {AmountBelow, AmountEqual, AmountAbove, AmountBad}
DigestAmounts == {AmountBelow, AmountAbove, AmountMax}

\* parse_hex_amount on the amounts of the hits, evaluated once
ParsedAmounts ==
    [a \in TransferAmounts \cup DigestAmounts |-> parse_hex_amount(a)]

TxnHashes == {"h1", "h2"}

\* EsHit.source, a TransferDocument: the fields the digest reads, and the
\* place of the hit in the response, which tells two hits of one txn_hash
\* and one amount apart (their timestamps)
TransferDocument(h, a, k) == [txn_hash |-> h, amount |-> a, timestamp |-> k]

\* the lists of at most n hits over the given amounts
HitLists(amounts, n) ==
    UNION {[1 .. m -> TxnHashes \X amounts] : m \in 0 .. n}

Hits(l) == [k \in 1 .. Len(l) |-> TransferDocument(l[k][1], l[k][2], k)]

\* process_transfers(hits, min_amount) is entered
InitTransfers ==
    /\ WdIdle
    /\ TgIdle
    /\ HxIdle
    /\ BkIdle
    /\ SbIdle
    /\ MnIdle
    /\ dg_caller = "process_transfers"
    /\ dg_pc = "process"
    /\ dg_now = 0
    /\ \E l \in HitLists(TransferAmounts, MaxHits) : hits = Hits(l)
    /\ hit_i = 0
    /\ large_transfers = <<>>
    /\ seen_hashes = {}
    /\ duplicate_count = 0
    /\ dg_messages = <<>>
    /\ dg_log = <<>>

\* the hit the loop of process_transfers is at
transfer == hits[hit_i + 1]

\* the amount of a transfer decodes and is at least min_amount
is_large(t) ==
    LET parsed == ParsedAmounts[t.amount]
    IN  parsed.kind = "Ok" /\ u128_ge(parsed.value, min_amount)

\* for hit in hits: the txn_hash was seen, the hit is counted and skipped
ProcessDuplicate ==
    /\ dg_pc = "process"
    /\ hit_i < Len(hits)
    /\ transfer.txn_hash \in seen_hashes
    /\ duplicate_count' = duplicate_count + 1
    /\ hit_i' = hit_i + 1
    /\ UNCHANGED <<dg_caller, dg_pc, dg_now, hits, large_transfers, seen_hashes,
                   dg_messages, dg_log, notDg>>

\* mutant of ProcessKeep: the txn_hash is not recorded as seen
ProcessKeep_no_insert ==
    /\ dg_pc = "process"
    /\ hit_i < Len(hits)
    /\ transfer.txn_hash \notin seen_hashes
    /\ is_large(transfer)
    /\ large_transfers' = Append(large_transfers, transfer)
    /\ hit_i' = hit_i + 1
    /\ UNCHANGED <<dg_caller, dg_pc, dg_now, hits, seen_hashes, duplicate_count,
                   dg_messages, dg_log, notDg>>

\* for hit in hits: the txn_hash is new and the amount is large, the hit is kept
ProcessKeep ==
    /\ dg_pc = "process"
    /\ hit_i < Len(hits)
    /\ transfer.txn_hash \notin seen_hashes
    /\ is_large(transfer)
    /\ seen_hashes' = seen_hashes \cup {transfer.txn_hash}
    /\ large_transfers' = Append(large_transfers, transfer)
    /\ hit_i' = hit_i + 1
    /\ UNCHANGED <<dg_caller, dg_pc, dg_now, hits, duplicate_count,
                   dg_messages, dg_log, notDg>>

\* for hit in hits: the txn_hash is new and the amount does not decode or is
\* below min_amount, the hit is passed over and nothing is recorded
ProcessPass ==
    /\ dg_pc = "process"
    /\ hit_i < Len(hits)
    /\ transfer.txn_hash \notin seen_hashes
    /\ ~is_large(transfer)
    /\ hit_i' = hit_i + 1
    /\ UNCHANGED <<dg_caller, dg_pc, dg_now, hits, large_transfers, seen_hashes,
                   duplicate_count, dg_messages, dg_log, notDg>>

\* the loop is over: large_transfers is returned, to the caller of
\* process_transfers or, through query_daily_transfers, to the Ok arm of run
ProcessReturn ==
    /\ dg_pc = "process"
    /\ hit_i = Len(hits)
    /\ dg_pc' = (IF dg_caller = "run" THEN "summary" ELSE "done")
    /\ UNCHANGED <<dg_caller, dg_now, hits, hit_i, large_transfers, seen_hashes,
                   duplicate_count, dg_messages, dg_log, notDg>>

NextTransfers ==
    \/ ProcessDuplicate
    \/ ProcessKeep
    \/ ProcessPass
    \/ ProcessReturn

SpecTransfers == InitTransfers /\ [][NextTransfers]_vars

\* the places in the input of the records carrying a txn_hash
C27_Places(h) == {k \in 1 .. Len(hits) : hits[k].txn_hash = h}

\* the places in the output of the entries carrying a txn_hash
C27_Entries(h) == {j \in 1 .. Len(large_transfers) : large_transfers[j].txn_hash = h}

\* C27 (as the specification states it): two input records sharing a txn_hash
\* yield exactly one output entry for that hash
C27_SharedHashYieldsOneEntry ==
    dg_pc = "done" =>
        \A h \in TxnHashes :
            Cardinality(C27_Places(h)) >= 2 => Cardinality(C27_Entries(h)) = 1

\* the sample amounts that are at least the threshold, known from the way the
\* samples are built and not from decoding them
C27_Large == {AmountEqual, AmountAbove}

\* C27 (amended): the output holds at most one entry per txn_hash, every entry
\* is a record of the input, and the input records of one txn_hash yield
\* exactly one entry when one of them has an amount of at least the threshold
\* and none otherwise
C27_AtMostOneEntryPerHash ==
    dg_pc = "done" =>
        /\ \A j \in 1 .. Len(large_transfers) :
              \E k \in 1 .. Len(hits) : large_transfers[j] = hits[k]
        /\ \A h \in TxnHashes :
              /\ Cardinality(C27_Entries(h)) <= 1
              /\ Cardinality(C27_Entries(h)) = 1
                    <=> \E k \in C27_Places(h) : hits[k].amount \in C27_Large

\* C27 witness: process_transfers returned one entry for three records of one
\* txn_hash, two of them large
C27_Witness ==
    /\ dg_pc = "done"
    /\ Len(hits) = 3
    /\ \A k \in 1 .. 3 : hits[k].txn_hash = "h1"
    /\ hits[1].amount = AmountBelow
    /\ hits[2].amount = AmountAbove
    /\ hits[3].amount = AmountEqual
    /\ large_transfers = <<hits[2]>>
    /\ duplicate_count = 1

\* the first place in the input of a record carrying a txn_hash
C28_First(h) == CHOOSE k \in C27_Places(h) : \A m \in C27_Places(h) : k <= m

\* C28 (as the specification states it): for every txn_hash the entry decided
\* on is the first input record carrying it, and every later record of that
\* txn_hash is dropped and counted as a duplicate, whatever the amounts
C28_FirstOccurrenceWins ==
    dg_pc = "done" =>
        /\ \A j \in 1 .. Len(large_transfers) :
              large_transfers[j] = hits[C28_First(large_transfers[j].txn_hash)]
        /\ duplicate_count =
              Len(hits) - Cardinality({hits[k].txn_hash : k \in 1 .. Len(hits)})

-----------------------------------------------------------------------------
(* SpecDigest: DailyNotificationService::run, the loop of the digest       *)

\* the number of days the loop is followed over
MaxDays == 2

\* the number of hits a response of the index holds at most in the loop
MaxDigestHits == 2

\* chrono::Duration::days(1), in seconds
SecondsPerDay == 86400

\* 23:59:00, in seconds after midnight
TargetSecond == 86340

\* the delay after an execution, in seconds
DelaySeconds == 60

\* now.date_naive(), as a number of days
date_naive(t) == t \div SecondsPerDay

\* now.time(), in seconds after midnight
time_of_day(t) == t % SecondsPerDay

\* target_time: 23:59:00 of today, or of tomorrow if now is at or past 23:59:00
target_time(t) ==
    LET today_target == date_naive(t) * SecondsPerDay + TargetSecond
    IN  IF time_of_day(t) >= TargetSecond
        THEN today_target + SecondsPerDay
        ELSE today_target

\* the times of day the service is started at: midnight, one second before
\* 23:59:00, 23:59:00 and the last second of the day
StartSeconds == {0, TargetSecond - 1, TargetSecond, SecondsPerDay - 1}

\* Result::unwrap_or
unwrap_or(r, default) == IF r.kind = "Ok" THEN r.value ELSE default

\* daily_results.iter().map(|t| parse_hex_amount(&t.amount).unwrap_or(0)).sum()
\* over the first n entries: the sum in u128, and whether an addition went
\* beyond u128 (a panic with overflow checks, a wrapped value without them)
RECURSIVE sum_amounts(_, _)
sum_amounts(daily_results, n) ==
    IF n = 0
    THEN [overflow |-> FALSE, value |-> ZeroU128]
    ELSE LET before == sum_amounts(daily_results, n - 1)
             term == unwrap_or(ParsedAmounts[daily_results[n].amount], ZeroU128)
             total == wrapping_add(before.value, term)
         IN  [overflow |-> before.overflow \/ ~u128_ge(total, before.value),
              value |-> total]

total_amount(daily_results) == sum_amounts(daily_results, Len(daily_results))

\* the outcomes of telegram_bot.send_message
SendResults == {"Ok", "Err"}

\* what an iteration is logged as after send_daily_summary returned
summary_outcome(result) == IF result = "Ok" THEN "sent" ELSE "send_err"

\* the service thread enters the loop of run
InitDigest ==
    /\ WdIdle
    /\ TgIdle
    /\ HxIdle
    /\ BkIdle
    /\ SbIdle
    /\ MnIdle
    /\ dg_caller = "run"
    /\ dg_pc = "schedule"
    /\ dg_now \in StartSeconds
    /\ hits = <<>>
    /\ hit_i = 0
    /\ large_transfers = <<>>
    /\ seen_hashes = {}
    /\ duplicate_count = 0
    /\ dg_messages = <<>>
    /\ dg_log = <<>>

\* the head of the loop: the target is computed and slept until
DigestSleep ==
    /\ dg_pc = "schedule"
    /\ date_naive(target_time(dg_now)) < MaxDays
    /\ dg_now' = target_time(dg_now)
    /\ dg_pc' = "query"
    /\ hits' = <<>>
    /\ hit_i' = 0
    /\ large_transfers' = <<>>
    /\ seen_hashes' = {}
    /\ duplicate_count' = 0
    /\ dg_messages' = <<>>
    /\ UNCHANGED <<dg_caller, dg_log, notDg>>

\* mutant of DigestQueryErr: the failure ends the loop
DigestQueryErr_ends_loop ==
    /\ dg_pc = "query"
    /\ dg_log' = Append(dg_log, [day |-> date_naive(dg_now), outcome |-> "query_err"])
    /\ dg_pc' = "panicked"
    /\ UNCHANGED <<dg_caller, dg_now, hits, hit_i, large_transfers, seen_hashes,
                   duplicate_count, dg_messages, notDg>>

\* query_daily_transfers returns Err (the request, the status or the body
\* fails): the Err arm of run logs it
DigestQueryErr ==
    /\ dg_pc = "query"
    /\ dg_log' = Append(dg_log, [day |-> date_naive(dg_now), outcome |-> "query_err"])
    /\ dg_pc' = "delay"
    /\ UNCHANGED <<dg_caller, dg_now, hits, hit_i, large_transfers, seen_hashes,
                   duplicate_count, dg_messages, notDg>>

\* query_daily_transfers got a response: its hits go to process_transfers
DigestQueryOk ==
    /\ dg_pc = "query"
    /\ \E l \in HitLists(DigestAmounts, MaxDigestHits) : hits' = Hits(l)
    /\ dg_pc' = "process"
    /\ UNCHANGED <<dg_caller, dg_now, hit_i, large_transfers, seen_hashes,
                   duplicate_count, dg_messages, dg_log, notDg>>

\* send_daily_summary with no entries: the message of a day without large
\* transfers is sent, and a failure of the sending is logged by run
SummaryEmpty ==
    /\ dg_pc = "summary"
    /\ large_transfers = <<>>
    /\ \E result \in SendResults :
          /\ dg_messages' = Append(dg_messages, [kind |-> "empty", result |-> result])
          /\ dg_log' = Append(dg_log, [day |-> date_naive(dg_now),
                                       outcome |-> summary_outcome(result)])
    /\ dg_pc' = "delay"
    /\ UNCHANGED <<dg_caller, dg_now, hits, hit_i, large_transfers, seen_hashes,
                   duplicate_count, notDg>>

\* the summary message: the number of entries and the sum of their amounts
SummaryMessage(result) ==
    [kind |-> "summary",
     total_transfers |-> Len(large_transfers),
     total_amount |-> total_amount(large_transfers).value,
     result |-> result]

\* send_daily_summary with entries whose sum stays within u128
SummaryTotal ==
    /\ dg_pc = "summary"
    /\ large_transfers # <<>>
    /\ ~total_amount(large_transfers).overflow
    /\ \E result \in SendResults :
          /\ dg_messages' = Append(dg_messages, SummaryMessage(result))
          /\ dg_log' = Append(dg_log, [day |-> date_naive(dg_now),
                                       outcome |-> summary_outcome(result)])
    /\ dg_pc' = "delay"
    /\ UNCHANGED <<dg_caller, dg_now, hits, hit_i, large_transfers, seen_hashes,
                   duplicate_count, notDg>>

\* send_daily_summary with entries whose sum leaves u128, built without
\* overflow checks: the wrapped sum is sent
SummaryOverflowWraps ==
    /\ dg_pc = "summary"
    /\ large_transfers # <<>>
    /\ total_amount(large_transfers).overflow
    /\ \E result \in SendResults :
          /\ dg_messages' = Append(dg_messages, SummaryMessage(result))
          /\ dg_log' = Append(dg_log, [day |-> date_naive(dg_now),
                                       outcome |-> summary_outcome(result)])
    /\ dg_pc' = "delay"
    /\ UNCHANGED <<dg_caller, dg_now, hits, hit_i, large_transfers, seen_hashes,
                   duplicate_count, notDg>>

\* send_daily_summary with entries whose sum leaves u128, built with overflow
\* checks: sum() panics, and the thread of the service ends
SummaryOverflowPanics ==
    /\ dg_pc = "summary"
    /\ large_transfers # <<>>
    /\ total_amount(large_transfers).overflow
    /\ dg_log' = Append(dg_log, [day |-> date_naive(dg_now), outcome |-> "panic"])
    /\ dg_pc' = "panicked"
    /\ UNCHANGED <<dg_caller, dg_now, hits, hit_i, large_transfers, seen_hashes,
                   duplicate_count, dg_messages, notDg>>

\* the delay at the end of the iteration, then the head of the loop again
DigestDelay ==
    /\ dg_pc = "delay"
    /\ dg_now' = dg_now + DelaySeconds
    /\ dg_pc' = "schedule"
    /\ UNCHANGED <<dg_caller, hits, hit_i, large_transfers, seen_hashes,
                   duplicate_count, dg_messages, dg_log, notDg>>

NextDigest ==
    \/ DigestSleep
    \/ DigestQueryErr
    \/ DigestQueryOk
    \/ ProcessDuplicate
    \/ ProcessKeep
    \/ ProcessPass
    \/ ProcessReturn
    \/ SummaryEmpty
    \/ SummaryTotal
    \/ SummaryOverflowWraps
    \/ SummaryOverflowPanics
    \/ DigestDelay

SpecDigest == InitDigest /\ [][NextDigest]_vars

\* the thread of the service is scheduled: the two sleeps of the loop end
SpecDigestLive == SpecDigest /\ WF_vars(DigestDelay) /\ WF_vars(DigestSleep)

\* the iteration the loop is in got its transfers and is through with them
C29_Retrieved ==
    /\ dg_pc \in {"delay", "panicked"}
    /\ dg_log[Len(dg_log)].outcome # "query_err"

\* the bytes of a sample amount, least significant first, on 17 bytes, known
\* from the way the samples are built and not from decoding them
C29_Bytes(a) ==
    [i \in 1 .. U128Bytes + 1 |->
        IF a = AmountMax
        THEN (IF i <= U128Bytes THEN 255 ELSE 0)
        ELSE IF a = AmountAbove
             THEN (IF i <= 4 THEN <<1, 202, 154, 59>>[i] ELSE 0)
             ELSE IF a = AmountEqual
                  THEN (IF i <= 4 THEN <<0, 202, 154, 59>>[i] ELSE 0)
                  ELSE (IF i = 1 THEN 10 ELSE 0)]

\* the bytes i .. 17 of x + y on 17 bytes, given the carry into byte i
RECURSIVE C29_AddWide(_, _, _, _)
C29_AddWide(x, y, i, carry) ==
    IF i > U128Bytes + 1
    THEN <<>>
    ELSE <<(x[i] + y[i] + carry) % 256>>
         \o C29_AddWide(x, y, i + 1, (x[i] + y[i] + carry) \div 256)

\* the total of the amounts of the first n entries, on 17 bytes
RECURSIVE C29_Total(_, _)
C29_Total(entries, n) ==
    IF n = 0
    THEN [i \in 1 .. U128Bytes + 1 |-> 0]
    ELSE C29_AddWide(C29_Total(entries, n - 1), C29_Bytes(entries[n].amount), 1, 0)

\* C29 (as the specification states it): when the retrieval of the day
\* succeeds, exactly one message is dispatched: the message of a day without
\* large transfers if the result set is empty, otherwise one summary with the
\* number of entries and the total of their amounts
C29_OneMessagePerDigest ==
    /\ Len(dg_messages) <= 1
    /\ C29_Retrieved =>
          /\ Len(dg_messages) = 1
          /\ large_transfers = <<>> => dg_messages[1].kind = "empty"
          /\ large_transfers # <<>> =>
                /\ dg_messages[1].kind = "summary"
                /\ dg_messages[1].total_transfers = Len(large_transfers)
                /\ dg_messages[1].total_amount \o <<0>>
                      = C29_Total(large_transfers, Len(large_transfers))

\* the iteration of the given day failed, in the retrieval or in the dispatch
C30_Failed(d) ==
    /\ dg_pc = "delay"
    /\ dg_log[Len(dg_log)].day = d
    /\ dg_log[Len(dg_log)].outcome \in {"query_err", "send_err"}

\* C30: a failed retrieval sends no message, neither a failed retrieval nor a
\* failed dispatch ends the loop, the iterations are on consecutive days, and
\* after a failed iteration the digest of the next day is scheduled and
\* executed
C30_FailureSkipsOneDay ==
    /\ [](/\ (dg_pc = "delay" /\ dg_log[Len(dg_log)].outcome = "query_err")
                => dg_messages = <<>>
          /\ dg_pc = "panicked" => dg_log[Len(dg_log)].outcome = "panic"
          /\ \A k \in 1 .. Len(dg_log) - 1 : dg_log[k + 1].day = dg_log[k].day + 1
          /\ \A d \in 0 .. MaxDays - 2 :
                C30_Failed(d) =>
                    target_time(dg_now + DelaySeconds) = (d + 1) * SecondsPerDay + TargetSecond)
    /\ \A d \in 0 .. MaxDays - 2 :
          C30_Failed(d) ~> (dg_pc = "query" /\ date_naive(dg_now) = d + 1)

\* C30 witness: the retrieval of the first day failed, and the digest of the
\* second day was executed and sent
C30_Witness ==
    /\ Len(dg_log) = 2
    /\ dg_log[1] = [day |-> 0, outcome |-> "query_err"]
    /\ dg_log[2] = [day |-> 1, outcome |-> "sent"]
    /\ Len(dg_messages) = 1

-----------------------------------------------------------------------------
(* C31: the index-cache lookup and the watchdog                             *)

\* the answers of the index cache that carry no height
C31_FailedLookups == LookupFailures \cup {"missing_field"}

\* C31 (as the specification states it): every failure of the index-cache
\* lookup (status, body, JSON, missing tip.block_number) is an error, never
\* the height 0, so the watchdog neither evaluates check_index_monitor_state
\* nor notifies in a tick whose lookup failed
C31_FailedLookupNeverEvaluated ==
    lookup.kind \in C31_FailedLookups => pc \notin {"check", "match", "update"}

-----------------------------------------------------------------------------
(* C32: a failed query of the watchdog poller                               *)

\* the tick whose index-cache lookup failed is skipped: the thread is at the
\* sleep that ends the iteration, nothing was dispatched in the tick and
\* NotificationState is what it was when the tick began
C32_LookupFailureSkipsTick ==
    lookup.kind \in LookupFailures
        => /\ pc = "sleep"
           /\ dispatch_result = "none"
           /\ monitor_result = NoResult
           /\ notification_state = state_before

\* C32 (as the specification states it): a failure of either query of the
\* poller (chain_info, the index-cache lookup) skips the current iteration
\* only: the poller keeps running, nothing is dispatched in the iteration and
\* NotificationState is unchanged. pc = "panicked" is the thread ended by the
\* expect() on a failed chain_info
C32_FailedQuerySkipsOneIteration ==
    /\ pc # "panicked"
    /\ C32_LookupFailureSkipsTick

-----------------------------------------------------------------------------
(* C33: a failed alert inside dispatch_block                                *)

\* the transactions of the block that qualify for an alert
C33_Qualifying ==
    {k \in 1 .. Len(full_txns) :
        exceeds_min_transaction_amount(parse_txn_p2p_amount(full_txns[k]))}

\* C33 (as the specification states it): when the send of one alert fails in
\* dispatch_block, the pipeline continues: once the call is over, every
\* qualifying transaction of the block (all of them decodable) was alerted
C33_FailedAlertDoesNotStopBlock ==
    (/\ bk_caller = "dispatch_block"
     /\ bk_pc = "done"
     /\ SendFailed
     /\ \A k \in 1 .. Len(full_txns) : parse_txn_p2p_amount(full_txns[k]).kind = "Ok")
        => \A k \in C33_Qualifying :
              \E j \in 1 .. Len(sends) : sends[j].txn_hash = full_txns[k].transaction_hash

-----------------------------------------------------------------------------
(* C35: parse_txn_p2p_amount over the unsigned 128-bit range                *)

\* the u128 parse_txn_p2p_amount returns, as its two 64-bit words: the value is
\* a u64 widened by `n as u128`, its high word is 0
C35_Returned(n) == Num(0, n)

\* C35 (as the specification states it): for a recognized transfer whose
\* amount argument is a number of the u128 range, parse_txn_p2p_amount returns
\* the value of that argument, amounts of 2^64 and more included
C35_AmountOfWholeU128Range ==
    \A k \in 1 .. Len(full_txns) :
        LET a == C22_TransferAmount(full_txns[k])
            r == parse_txn_p2p_amount(full_txns[k])
        IN  a.some =>
                /\ r.kind = "Ok"
                /\ r.value.some
                /\ C35_Returned(r.value.value) = a.value

\* the same for the amounts below 2^64 only
C35_AmountBelowTwoTo64 ==
    \A k \in 1 .. Len(full_txns) :
        LET a == C22_TransferAmount(full_txns[k])
            r == parse_txn_p2p_amount(full_txns[k])
        IN  (a.some /\ a.value.hi = 0) =>
                /\ r.kind = "Ok"
                /\ r.value.some
                /\ C35_Returned(r.value.value) = a.value

-----------------------------------------------------------------------------
(* stc_scan_monitor.rs: the poll loop of the earlier StcScanMonitor::run.  *)
(* notification_state.latest_notify_time holds the local                   *)
(* `latest_notify_time` of the loop.                                       *)

\* SpecLegacy: the loop is followed for this many seconds
LegacyHorizon == 25

MAX_NOTIFY_TIME_INTERVAL == 600
MAC_BLOCK_DIFFER == 1000
\* tokio::time::sleep(Duration::from_millis(10000)) of the `continue`, in seconds
LegacyBehindSleepSeconds == 10
\* std::thread::sleep(Duration::from_millis(5000)) that ends an iteration, in seconds
LegacySleepSeconds == 5

\* get_cached_index_block_numer of stc_scan_monitor.rs: a non-success status
\* is `return Ok(0u64)`, a missing field .unwrap_or(0u64)
legacy_get_cached_index_block_numer(response) ==
    IF response.kind \in {"request_failed", "unreadable_body", "bad_json"} THEN Err
    ELSE IF response.kind \in {"bad_status", "missing_field"} THEN Ok(0)
    ELSE Ok(response.block_number)

\* the condition of the `if` that guards the dispatch
legacy_notify_condition(current, cached, latest_notify_time, utc_timestamp_secs) ==
    /\ (current - cached) > MAC_BLOCK_DIFFER
    /\ \/ latest_notify_time # 0
       \/ utc_timestamp_secs - latest_notify_time > MAX_NOTIFY_TIME_INTERVAL

\* let mut latest_notify_time: u64 = 0; the clock of the host is further from
\* the epoch than the notification interval
InitLegacy ==
    /\ now = StartTime + MAX_NOTIFY_TIME_INTERVAL
    /\ pc = "legacy_loop"
    /\ notification_state = [latest_notify_time |-> 0]
    /\ monitor_config = IndexMonitorConfigDefault
    /\ current_block_number = 0
    /\ cached_index_number = 0
    /\ monitor_result = NoResult
    /\ dispatch_result = "none"
    /\ notify_log = <<>>
    /\ state_before = [latest_notify_time |-> 0]
    /\ lookup = NoLookup
    /\ TgIdle
    /\ RestIdle

\* rpc_client.chain_info().expect(..).head.number.0
LegacyChainInfoOk ==
    /\ pc = "legacy_loop"
    /\ now < StartTime + MAX_NOTIFY_TIME_INTERVAL + LegacyHorizon
    /\ \E n \in Heights : current_block_number' = n
    /\ pc' = "legacy_get_cached"
    /\ dispatch_result' = "none"
    /\ state_before' = notification_state
    /\ UNCHANGED <<now, notification_state, monitor_config, cached_index_number,
                   monitor_result, notify_log, lookup, tgVars, restVars>>

\* chain_info() fails: expect() panics and the thread ends
LegacyChainInfoPanic ==
    /\ pc = "legacy_loop"
    /\ pc' = "panicked"
    /\ UNCHANGED <<now, notification_state, monitor_config, current_block_number,
                   cached_index_number, monitor_result, dispatch_result, notify_log,
                   state_before, lookup, tgVars, restVars>>

\* get_cached_index_block_numer(..).await.unwrap_or(0)
LegacyGetCached ==
    /\ pc = "legacy_get_cached"
    /\ \E response \in LookupResponses :
          /\ lookup' = response
          /\ cached_index_number' =
                unwrap_or(legacy_get_cached_index_block_numer(response), 0)
    /\ pc' = "legacy_tick"
    /\ UNCHANGED <<now, notification_state, monitor_config, current_block_number,
                   monitor_result, dispatch_result, notify_log, state_before,
                   tgVars, restVars>>

\* if current_block_number < cached_index_number { sleep 10 s; continue; }
LegacyBehind ==
    /\ pc = "legacy_tick"
    /\ current_block_number < cached_index_number
    /\ now' = now + LegacyBehindSleepSeconds
    /\ lookup' = NoLookup
    /\ pc' = "legacy_loop"
    /\ UNCHANGED <<notification_state, monitor_config, current_block_number,
                   cached_index_number, monitor_result, dispatch_result, notify_log,
                   state_before, tgVars, restVars>>

\* the condition holds: the dispatch, its result discarded, then
\* latest_notify_time = utc_timestamp_secs (the clock read before the dispatch)
LegacyNotify ==
    /\ pc = "legacy_tick"
    /\ current_block_number >= cached_index_number
    /\ legacy_notify_condition(current_block_number, cached_index_number,
                               notification_state.latest_notify_time, now)
    /\ \E r \in {"ok", "err"} : dispatch_result' = r
    /\ \E e \in DispatchElapsed : now' = now + e
    /\ notify_log' = Append(notify_log, now)
    /\ notification_state' = [latest_notify_time |-> now]
    /\ pc' = "legacy_sleep"
    /\ UNCHANGED <<monitor_config, current_block_number, cached_index_number,
                   monitor_result, state_before, lookup, tgVars, restVars>>

\* the condition does not hold
LegacyNoNotify ==
    /\ pc = "legacy_tick"
    /\ current_block_number >= cached_index_number
    /\ ~legacy_notify_condition(current_block_number, cached_index_number,
                                notification_state.latest_notify_time, now)
    /\ pc' = "legacy_sleep"
    /\ UNCHANGED <<now, notification_state, monitor_config, current_block_number,
                   cached_index_number, monitor_result, dispatch_result, notify_log,
                   state_before, lookup, tgVars, restVars>>

\* std::thread::sleep(Duration::from_millis(5000)), then the next iteration
LegacySleep ==
    /\ pc = "legacy_sleep"
    /\ now' = now + LegacySleepSeconds
    /\ lookup' = NoLookup
    /\ pc' = "legacy_loop"
    /\ UNCHANGED <<notification_state, monitor_config, current_block_number,
                   cached_index_number, monitor_result, dispatch_result, notify_log,
                   state_before, tgVars, restVars>>

NextLegacy ==
    \/ LegacyChainInfoOk
    \/ LegacyChainInfoPanic
    \/ LegacyGetCached
    \/ LegacyBehind
    \/ LegacyNotify
    \/ LegacyNoNotify
    \/ LegacySleep

SpecLegacy == InitLegacy /\ [][NextLegacy]_vars

\* the clock the tick read: latest_notify_time after a dispatch, else the
\* clock, which has not moved since
C34_TickTime ==
    IF dispatch_result # "none" THEN notification_state.latest_notify_time ELSE now

\* the decisions of the loop are those of check_index_monitor_state
C34_CoincidesWithStateMachine ==
    pc = "legacy_sleep" =>
        (dispatch_result # "none"
            <=> check_index_monitor_state(current_block_number, cached_index_number,
                    state_before, IndexMonitorConfigDefault, C34_TickTime).kind
                  = "ShouldNotify")

\* C34 (as the specification states it): the poll loop of stc_scan_monitor.rs
\* follows the debounce truth table: on a tick with current - cached > 1000 it
\* notifies if and only if latest_notify_time = 0 or now - latest_notify_time
\* > 600; its decisions are those of check_index_monitor_state and two
\* notifications are more than 600 seconds apart
C34_LegacyLoopFollowsTruthTable ==
    /\ (pc = "legacy_sleep" /\ current_block_number - cached_index_number > 1000) =>
          (dispatch_result # "none"
              <=> \/ state_before.latest_notify_time = 0
                  \/ C34_TickTime - state_before.latest_notify_time > 600)
    /\ C34_CoincidesWithStateMachine
    /\ \A i \in 1 .. Len(notify_log) - 1 : notify_log[i + 1] - notify_log[i] > 600

-----------------------------------------------------------------------------
(* C36: the threshold of process_transfers                                  *)

\* the sample amounts strictly above the threshold, known from the way the
\* samples are built and not from decoding them
C36_Above == {AmountAbove, AmountMax}

\* C36 (as the specification states it): process_transfers keeps a record
\* only if its decoded amount is strictly greater than min_amount: a record
\* whose amount equals min_amount, and one whose amount cannot be decoded, is
\* not in the output
C36_OnlyAboveThreshold ==
    \A j \in 1 .. Len(large_transfers) : large_transfers[j].amount \in C36_Above

\* only a record whose amount cannot be decoded or is below min_amount is
\* kept out
C36_OnlyAtLeastThreshold ==
    \A j \in 1 .. Len(large_transfers) :
        large_transfers[j].amount \in C36_Above \cup {AmountEqual}

-----------------------------------------------------------------------------
(* C37: the wrapping arithmetic of parse_hex_amount                         *)

\* byte * 2^(8 * i) without any loss, on 17 bytes
C37_ExactShift(byte, i) ==
    [j \in 1 .. U128Bytes + 1 |-> IF j = i + 1 THEN byte ELSE 0]

\* x on 17 bytes
C37_Wide(x) == x \o <<0>>

\* C37: in the summing loop of parse_hex_amount nothing wraps: every shift
\* i * 8 is below 128, the running sum holds the bytes summed so far at their
\* places and zero bits above them (the ranges of the shifted bytes are
\* disjoint), and the next wrapping shift and wrapping addition give the exact
\* sum of the running sum and byte * 2^(8 * i), which is below 2^128
C37_WrappingNeverWraps ==
    hx_pc = "sum" =>
        /\ Len(padded_bytes) = U128Bytes
        /\ hx_i <= U128Bytes
        /\ amount = [j \in 1 .. U128Bytes |-> IF j <= hx_i THEN padded_bytes[j] ELSE 0]
        /\ hx_i < U128Bytes =>
              /\ hx_i * 8 < 128
              /\ C37_Wide(sum_step(amount, padded_bytes, hx_i))
                    = C29_AddWide(C37_Wide(amount),
                                  C37_ExactShift(padded_bytes[hx_i + 1], hx_i), 1, 0)

\* C37 witness: sixteen bytes 0xff were summed; the sum is 2^128 - 1
C37_Witness ==
    /\ hx_pc = "sum"
    /\ hx_i = U128Bytes
    /\ padded_bytes = [j \in 1 .. U128Bytes |-> 255]
    /\ amount = [j \in 1 .. U128Bytes |-> 255]

-----------------------------------------------------------------------------
(* C38: the total of send_daily_summary                                     *)

\* every entry process_transfers has let through decodes: none contributes the
\* 0 of unwrap_or(0) to the total
C38_NoFallbackTerm ==
    \A j \in 1 .. Len(large_transfers) :
        /\ large_transfers[j].amount # AmountBad
        /\ ParsedAmounts[large_transfers[j].amount].kind = "Ok"

\* C38 (as the specification states it): the u128 sum of the decoded amounts
\* of the entries handed to send_daily_summary never overflows (the exact
\* total, on 17 bytes, is below 2^128), and no entry contributes the fallback 0
C38_TotalNeverOverflows ==
    /\ C38_NoFallbackTerm
    /\ dg_pc = "summary" =>
          /\ C29_Total(large_transfers, Len(large_transfers))[U128Bytes + 1] = 0
          /\ ~total_amount(large_transfers).overflow

-----------------------------------------------------------------------------
(* C39: the unsigned subtractions of the watchdog                           *)

\* check_index_monitor_state is about to be called and will evaluate
\* current_time - latest_notify_time: the chain is not behind, the difference
\* is significant and a notification was sent before
C39_TimeSubtractionReached ==
    /\ pc = "check"
    /\ ~is_current_block_behind(current_block_number, cached_index_number)
    /\ has_significant_block_difference(current_block_number, cached_index_number,
                                        monitor_config.max_block_difference)
    /\ notification_state.latest_notify_time # 0

\* check_index_monitor_state is about to be called and will evaluate
\* current_block - cached_block: in has_significant_block_difference after
\* its early return
C39_BlockSubtractionReached ==
    /\ pc = "check"
    /\ ~is_current_block_behind(current_block_number, cached_index_number)
    /\ ~(current_block_number <= cached_index_number)

\* C39: on every tick of the watchdog the u64 subtractions have operands in
\* order: current_time - latest_notify_time is evaluated with
\* latest_notify_time <= current_time, and current - cached (in
\* check_index_monitor_state, in the ShouldNotify it returns and in the
\* message of dispatch_stcscan_index_exception) with current >= cached
C39_SubtractionsNeverUnderflow ==
    /\ C39_TimeSubtractionReached => notification_state.latest_notify_time <= now
    /\ C39_BlockSubtractionReached => current_block_number >= cached_index_number
    /\ monitor_result.kind = "ShouldNotify" =>
          /\ monitor_result.current_block >= monitor_result.cached_block
          /\ monitor_result.current_block = current_block_number
          /\ monitor_result.cached_block = cached_index_number
          /\ monitor_result.difference
                = monitor_result.current_block - monitor_result.cached_block
    /\ pc = "update" => current_block_number >= cached_index_number

\* C39 witness: a tick after a notification, with a significant difference:
\* both subtractions are evaluated, then the one of the message
C39_Witness ==
    /\ pc = "update"
    /\ Len(notify_log) = 2
    /\ state_before.latest_notify_time # 0
    /\ state_before.latest_notify_time < notify_log[2]
    /\ current_block_number - cached_index_number > monitor_config.max_block_difference

-----------------------------------------------------------------------------
(* monitor.rs: the polling monitor Monitor::run / Monitor::monitor_blocks,  *)
(* with the table large_transaction_alerts of database.rs                  *)

\* SpecMonitor: monitor_blocks is called this many times
MaxPolls == 3

\* Transaction.hash of the transactions the node reports
MonitorHashes == {"t1", "t2"}

\* Transaction: the fields monitor_blocks reads; an amount just below
\* config.min_transaction_amount and one equal to it
Transaction(h, a) == [hash |-> h, amount |-> a]
MonitorTransactions ==
    {Transaction(h, a) : h \in MonitorHashes,
                         a \in {MinTransactionAmount - 1, MinTransactionAmount}}

\* block.transactions of the latest block, the same block or another at
\* every poll: no transaction, one, or two (of one hash or of two)
MonitorBlocks ==
    {<<>>}
    \cup {<<t>> : t \in MonitorTransactions}
    \cup {<<t, u>> : t \in MonitorTransactions, u \in MonitorTransactions}

\* Database::is_alert_sent: the row of the hash, if any, has alert_sent TRUE
is_alert_sent(table, transaction_hash) == transaction_hash \in table

\* Database::mark_alert_sent: INSERT OR REPLACE of the row of the hash
mark_alert_sent(table, transaction_hash) == table \cup {transaction_hash}

\* if transaction.amount >= self.config.min_transaction_amount
is_large_transaction(t) == t.amount >= MinTransactionAmount

\* Monitor::run enters its loop
InitMonitor ==
    /\ mn_pc = "poll"
    /\ mn_block = <<>>
    /\ mn_i = 0
    /\ alert_sent = {}
    /\ mn_result = "none"
    /\ mn_polls = 0
    /\ mn_log = <<>>
    /\ WdIdle
    /\ TgIdle
    /\ HxIdle
    /\ BkIdle
    /\ SbIdle
    /\ DgIdle

\* the transaction the for loop is at
transaction == mn_block[mn_i + 1]

\* monitor_blocks returns r to run, which sleeps (the interval after Ok, 5 s
\* after the logged Err) and polls again
MonitorReturns(r) ==
    /\ mn_result' = r
    /\ mn_polls' = mn_polls + 1
    /\ mn_pc' = "poll"

\* get_latest_block_number(..)? or get_block_by_number(..)? fails
PollQueryErr ==
    /\ mn_pc = "poll"
    /\ mn_polls < MaxPolls
    /\ MonitorReturns("Err")
    /\ UNCHANGED <<mn_block, mn_i, alert_sent, mn_log, notMn>>

\* get_block_by_number returns Ok(None): Ok(())
PollNoBlock ==
    /\ mn_pc = "poll"
    /\ mn_polls < MaxPolls
    /\ MonitorReturns("Ok")
    /\ UNCHANGED <<mn_block, mn_i, alert_sent, mn_log, notMn>>

\* get_block_by_number returns Ok(Some(block)): the for loop is entered
PollBlock ==
    /\ mn_pc = "poll"
    /\ mn_polls < MaxPolls
    /\ \E b \in MonitorBlocks : mn_block' = b
    /\ mn_i' = 0
    /\ mn_pc' = "loop"
    /\ UNCHANGED <<alert_sent, mn_result, mn_polls, mn_log, notMn>>

\* the amount is below the threshold: the next transaction
TxnBelowThreshold ==
    /\ mn_pc = "loop"
    /\ mn_i < Len(mn_block)
    /\ ~is_large_transaction(transaction)
    /\ mn_i' = mn_i + 1
    /\ UNCHANGED <<mn_pc, mn_block, alert_sent, mn_result, mn_polls, mn_log, notMn>>

\* self.db.save_transaction(..)? or self.db.is_alert_sent(..)? fails
TxnDatabaseErr ==
    /\ mn_pc = "loop"
    /\ mn_i < Len(mn_block)
    /\ is_large_transaction(transaction)
    /\ MonitorReturns("Err")
    /\ UNCHANGED <<mn_block, mn_i, alert_sent, mn_log, notMn>>

\* is_alert_sent is true: no alert
TxnAlreadyAlerted ==
    /\ mn_pc = "loop"
    /\ mn_i < Len(mn_block)
    /\ is_large_transaction(transaction)
    /\ is_alert_sent(alert_sent, transaction.hash)
    /\ mn_log' = Append(mn_log, [hash |-> transaction.hash, event |-> "already_sent"])
    /\ mn_i' = mn_i + 1
    /\ UNCHANGED <<mn_pc, mn_block, alert_sent, mn_result, mn_polls, notMn>>

\* mutant: the hash is marked before the alert is sent, and the sending fails
TxnAlertErr_marked_first ==
    /\ mn_pc = "loop"
    /\ mn_i < Len(mn_block)
    /\ is_large_transaction(transaction)
    /\ ~is_alert_sent(alert_sent, transaction.hash)
    /\ alert_sent' = mark_alert_sent(alert_sent, transaction.hash)
    /\ mn_log' = mn_log \o <<[hash |-> transaction.hash, event |-> "mark"],
                             [hash |-> transaction.hash, event |-> "dispatch_err"]>>
    /\ MonitorReturns("Err")
    /\ UNCHANGED <<mn_block, mn_i, notMn>>

\* self.send_large_transaction_alert(..)? fails: the poll ends
TxnAlertErr ==
    /\ mn_pc = "loop"
    /\ mn_i < Len(mn_block)
    /\ is_large_transaction(transaction)
    /\ ~is_alert_sent(alert_sent, transaction.hash)
    /\ mn_log' = Append(mn_log, [hash |-> transaction.hash, event |-> "dispatch_err"])
    /\ MonitorReturns("Err")
    /\ UNCHANGED <<mn_block, mn_i, alert_sent, notMn>>

\* the alert is sent and self.db.mark_alert_sent(..)? succeeds
TxnAlertMarked ==
    /\ mn_pc = "loop"
    /\ mn_i < Len(mn_block)
    /\ is_large_transaction(transaction)
    /\ ~is_alert_sent(alert_sent, transaction.hash)
    /\ alert_sent' = mark_alert_sent(alert_sent, transaction.hash)
    /\ mn_log' = mn_log \o <<[hash |-> transaction.hash, event |-> "dispatch_ok"],
                             [hash |-> transaction.hash, event |-> "mark"]>>
    /\ mn_i' = mn_i + 1
    /\ UNCHANGED <<mn_pc, mn_block, mn_result, mn_polls, notMn>>

\* the alert is sent and self.db.mark_alert_sent(..)? fails: the poll ends
TxnAlertMarkErr ==
    /\ mn_pc = "loop"
    /\ mn_i < Len(mn_block)
    /\ is_large_transaction(transaction)
    /\ ~is_alert_sent(alert_sent, transaction.hash)
    /\ mn_log' = Append(mn_log, [hash |-> transaction.hash, event |-> "dispatch_ok"])
    /\ MonitorReturns("Err")
    /\ UNCHANGED <<mn_block, mn_i, alert_sent, notMn>>

\* the for loop is over: Ok(())
PollReturn ==
    /\ mn_pc = "loop"
    /\ mn_i = Len(mn_block)
    /\ MonitorReturns("Ok")
    /\ UNCHANGED <<mn_block, mn_i, alert_sent, mn_log, notMn>>

NextMonitor ==
    \/ PollQueryErr
    \/ PollNoBlock
    \/ PollBlock
    \/ TxnBelowThreshold
    \/ TxnDatabaseErr
    \/ TxnAlreadyAlerted
    \/ TxnAlertErr
    \/ TxnAlertMarked
    \/ TxnAlertMarkErr
    \/ PollReturn

SpecMonitor == InitMonitor /\ [][NextMonitor]_vars

-----------------------------------------------------------------------------
(* C40: alerts and marks of the polling monitor                             *)

\* the places of the log where the hash was marked / an alert was dispatched
C40_Marks(h) ==
    {k \in 1 .. Len(mn_log) : mn_log[k].hash = h /\ mn_log[k].event = "mark"}
C40_Dispatches(h) ==
    {k \in 1 .. Len(mn_log) :
        mn_log[k].hash = h /\ mn_log[k].event \in {"dispatch_ok", "dispatch_err"}}

\* C40: over any sequence of polls a hash is marked alert-sent only right
\* after its alert dispatch returned success; once it is marked no further
\* alert is dispatched for it; a hash whose dispatch failed stays unmarked
\* (the table holds exactly the hashes marked after a successful dispatch),
\* and when a later poll comes to it the alert is dispatched again and not
\* suppressed
C40_MarkedOnlyAfterSuccess ==
    \A h \in MonitorHashes :
        /\ \A k \in C40_Marks(h) :
              /\ k > 1
              /\ mn_log[k - 1] = [hash |-> h, event |-> "dispatch_ok"]
              /\ \A j \in C40_Dispatches(h) : j < k
        /\ is_alert_sent(alert_sent, h) <=> C40_Marks(h) # {}
        /\ (/\ C40_Dispatches(h) # {}
            /\ \A j \in C40_Dispatches(h) : mn_log[j].event = "dispatch_err")
              => ~is_alert_sent(alert_sent, h)
        /\ (/\ mn_pc = "loop"
            /\ mn_i < Len(mn_block)
            /\ transaction.hash = h
            /\ is_large_transaction(transaction)
            /\ ~is_alert_sent(alert_sent, h))
              => /\ ~ENABLED TxnAlreadyAlerted
                 /\ ENABLED TxnAlertMarked
                 /\ ENABLED TxnAlertErr

\* C40 witness: the dispatch for a hash failed in one poll, succeeded in the
\* next, the hash was marked, and a third poll of the same block dispatched
\* nothing for it
C40_Witness ==
    /\ mn_polls = 3
    /\ mn_log = <<[hash |-> "t1", event |-> "dispatch_err"],
                  [hash |-> "t1", event |-> "dispatch_ok"],
                  [hash |-> "t1", event |-> "mark"],
                  [hash |-> "t1", event |-> "already_sent"]>>
    /\ alert_sent = {"t1"}

====
